---- MODULE Spec2Model ----
(***************************************************************************)
(* Model of the requirement-extraction pipeline of the policy compliance   *)
(* checker: RequirementExtractorAgent.extract_requirements (quality        *)
(* routing, two-attempt generation loop, parsing cascade, pattern and      *)
(* summary fallbacks, error sentinel, recursive processing of oversized    *)
(* chunks) driven by ComplianceWorkflow._extract_requirements.             *)
(*                                                                         *)
(* Texts are represented by the quantities the code measures on them       *)
(* (length, non-whitespace characters, words, special characters,          *)
(* regulatory indicators, coherent sentences, the spans the fallback       *)
(* patterns match); a generation response additionally by the outcome of   *)
(* json.loads on it and by the fragments the tier-2 pattern finds.         *)
(* Chunk ids are sequences of naturals: <<3>> is chunk 3 and <<3, 2>> is   *)
(* the id "3_SUB2".                                                        *)
(*                                                                         *)
(* ChunkerAgent.chunk_document (structural split by section markers, size  *)
(* enforcement, size-bounded splitter with overlap, chunk construction) is *)
(* modelled on texts given character by character, under its own           *)
(* specification ChunkSpec.                                                *)
(***************************************************************************)
EXTENDS Integers, Sequences, FiniteSets, TLC

VARIABLES
  chunks,        \* state.chunks of the workflow
  idx,           \* number of chunks the extraction loop has finished
  requirements,  \* state.requirements: one result per finished chunk
  wfpc,          \* position of the workflow: "extract", "done", "failed"
  stack,         \* the active calls of extract_requirements, innermost last
  llm,           \* the generation capability in use: "rich" or "core"
  lastRet,       \* history: how the most recent call of extract_requirements ended
  entered,       \* history: chunk ids the loop passed to extract_requirements
  tagsSeen,      \* history: per producing tier, the extraction_method tags of its records
  doc,           \* the chunker and its input: content, chunk_size, overlap
  ck,            \* the position and the locals of the call of chunk_document
  made           \* the list chunk_document has built so far (its result at the end)

vars ==
  <<chunks, idx, requirements, wfpc, stack, llm, lastRet, entered, tagsSeen,
    doc, ck, made>>

(* ------------------------------ bounds --------------------------------- *)
MaxChunks == 2
MaxItems == 2
MaxSubs == 2
MaxDepth == 3

(* ------------------------- program constants --------------------------- *)
SplitWords == 2500
SubChunkSize == 3000
Attempts == 2
MinReqLen == 10
SpanMinLen == 20
SpanMaxLen == 500
SummaryLen == 300
PreviewLen == 200
SummaryPrefixLen == 55
ErrorFixedLen == 65
MaxKeywords == 10

Min(a, b) == IF a < b THEN a ELSE b
Max(a, b) == IF a > b THEN a ELSE b

(* ------------------------------- texts --------------------------------- *)
\* A text with w words of l characters each, sp of its characters special,
\* pad surplus whitespace characters, j places where preprocessing inserts
\* a space, ind regulatory indicators, sen coherent sentences, and the
\* spans matched by the standard and the aggressive fallback patterns.
MkText(t, w, l, sp, pad, j, ind, sen, std, agg) ==
  [tid |-> t, words |-> w, nonws |-> w * l, specials |-> sp,
   chars |-> w * l + (IF w > 0 THEN w - 1 ELSE 0) + pad,
   joins |-> j, indicators |-> ind, sentences |-> sen,
   std |-> std, agg |-> agg]

\* content.strip() == ''
IsBlank(text) == text.nonws = 0

\* A span matched by a fallback pattern: the text it holds, its stripped
\* length, whether it contains one of the strong obligation words, the
\* categories of whose keywords it contains one, and the vocabulary words
\* found in it.
Span(t, n, strong, cats, keywords) ==
  [tid |-> t, len |-> n, strong |-> strong, cats |-> cats,
   keywords |-> keywords]

\* _preprocess_content: blank content is returned unchanged; otherwise
\* whitespace runs collapse to one space, a space is inserted at every
\* case/digit join, and the result is stripped.
preprocess_content(content) ==
  IF IsBlank(content) THEN content
  ELSE LET w == content.words + content.joins
       IN [content EXCEPT !.words = w,
                          !.chars = content.nonws + w - 1,
                          !.joins = 0]

\* as ScoreBase, short words counting 5
ScoreBaseShortWordsFive(content) ==
  content.indicators * 10 + content.sentences * 5
  + (IF 50 < content.words /\ content.words < 1000 THEN 50 ELSE 20)
  + (IF content.nonws > 3 * Max(content.words, 1) THEN 20 ELSE 5)

\* base part of quality_score (everything but the special-character term)
ScoreBase(content) ==
  content.indicators * 10 + content.sentences * 5
  + (IF 50 < content.words /\ content.words < 1000 THEN 50 ELSE 20)
  + (IF content.nonws > 3 * Max(content.words, 1) THEN 20 ELSE 10)

\* variant: the size test counts characters instead of words
assess_content_quality_by_chars(content) ==
  LET L == Max(content.chars, 1)
      ratioOver30 == content.specials * 10 > 3 * L
      scoreBelow20 == ScoreBase(content) * L - 100 * content.specials < 20 * L
  IN [word_count |-> content.words,
      regulatory_indicators |-> content.indicators,
      coherent_sentences |-> content.sentences,
      needs_splitting |-> content.chars > SplitWords,
      quality_score |-> [num |-> Min(100 * L, ScoreBase(content) * L - 100 * content.specials),
                         den |-> L],
      likely_corrupted |-> ratioOver30 \/ scoreBelow20]

\* _assess_content_quality.  special_char_ratio = specials / max(len, 1);
\* the comparisons are made exactly by cross-multiplication, and
\* quality_score is the fraction num / den.
assess_content_quality(content) ==
  LET L == Max(content.chars, 1)
      ratioOver30 == content.specials * 10 > 3 * L
      scoreBelow20 == ScoreBase(content) * L - 100 * content.specials < 20 * L
  IN [word_count |-> content.words,
      regulatory_indicators |-> content.indicators,
      coherent_sentences |-> content.sentences,
      needs_splitting |-> content.words > SplitWords,
      quality_score |-> [num |-> Min(100 * L, ScoreBase(content) * L - 100 * content.specials),
                         den |-> L],
      likely_corrupted |-> ratioOver30 \/ scoreBelow20]

(* --------------------------- candidate records ------------------------- *)
OptionalFields ==
  {"id", "category", "priority", "reference", "keywords",
   "requirement_type", "deadline", "applies_to"}

\* An element of a parsed requirements list.  kind is "nondict" (not an
\* object), "absent" (no requirement key), "nonstr" (requirement is null or
\* not a string) or "text"; a text has len characters after stripping and
\* pad surrounding whitespace characters; id is the id the element carries
\* (NoId when it has none); given are the other optional keys it carries;
\* kw is the keywords list it carries when keywords is one of them.
NoId == <<<<>>, "NONE", 0>>
LlmId == <<<<>>, "LLM", 0>>

Cand(kind, t, n, pad, id, given) ==
  [kind |-> kind, tid |-> t, len |-> n, pad |-> pad, id |-> id, given |-> given,
   kw |-> <<>>]

\* the element c carrying the keywords list kw
WithKeywords(c, kw) == [c EXCEPT !.given = @ \cup {"keywords"}, !.kw = kw]

HashLen == 8

\* hashlib.md5(requirement_text.encode()).hexdigest()[:8] : eight hex digits
\* that depend on the stripped text only
md5_8(t, n) == [k \in 1..HashLen |-> (t * (k + 6) + n * (2 * k + 1) + k * k) % 16]

\* the documented default of an optional field (lines 353-359)
DefaultOf(f, chunk_id) ==
  CASE f = "category" -> "general"
    [] f = "priority" -> "medium"
    [] f = "reference" -> <<"Chunk", chunk_id>>
    [] f = "keywords" -> <<>>
    [] f = "requirement_type" -> "mandatory"
    [] f = "deadline" -> ""
    [] f = "applies_to" -> ""

\* the value a response supplies for an optional field
Supplied(c, f) ==
  CASE f = "reference" -> <<"llm", <<>>>>
    [] f = "keywords" -> c.kw
    [] OTHER -> "llm"

\* req.get(f, default)
GetField(c, f, chunk_id) ==
  IF f \in c.given THEN Supplied(c, f) ELSE DefaultOf(f, chunk_id)

\* variant: only the keys the element carries are copied
ValidatedRecordNoDefaults(c, chunk_id, i) ==
  LET keys == {"id", "requirement", "chunk_id", "extraction_method", "content_hash"}
              \cup c.given
  IN [f \in keys |->
        CASE f = "id" -> IF c.id = NoId THEN <<chunk_id, "REQ", i>> ELSE c.id
          [] f = "requirement" -> [kind |-> "text", tid |-> c.tid, len |-> c.len]
          [] f = "chunk_id" -> chunk_id
          [] f = "extraction_method" -> "enhanced_llm"
          [] f = "content_hash" -> md5_8(c.tid, c.len)
          [] OTHER -> Supplied(c, f)]

\* variant: the fingerprint is taken of the text before stripping
ValidatedRecordHashRaw(c, chunk_id, i) ==
  [id |-> IF c.id = NoId THEN <<chunk_id, "REQ", i>> ELSE c.id,
   requirement |-> [kind |-> "text", tid |-> c.tid, len |-> c.len],
   category |-> GetField(c, "category", chunk_id),
   priority |-> GetField(c, "priority", chunk_id),
   reference |-> GetField(c, "reference", chunk_id),
   keywords |-> GetField(c, "keywords", chunk_id),
   requirement_type |-> GetField(c, "requirement_type", chunk_id),
   deadline |-> GetField(c, "deadline", chunk_id),
   applies_to |-> GetField(c, "applies_to", chunk_id),
   chunk_id |-> chunk_id,
   extraction_method |-> "enhanced_llm",
   content_hash |-> md5_8(c.tid, c.len + c.pad)]

\* the record built at lines 350-366 for element i (1-based) of the list
ValidatedRecord(c, chunk_id, i) ==
  [id |-> IF c.id = NoId THEN <<chunk_id, "REQ", i>> ELSE c.id,
   requirement |-> [kind |-> "text", tid |-> c.tid, len |-> c.len],
   category |-> GetField(c, "category", chunk_id),
   priority |-> GetField(c, "priority", chunk_id),
   reference |-> GetField(c, "reference", chunk_id),
   keywords |-> GetField(c, "keywords", chunk_id),
   requirement_type |-> GetField(c, "requirement_type", chunk_id),
   deadline |-> GetField(c, "deadline", chunk_id),
   applies_to |-> GetField(c, "applies_to", chunk_id),
   chunk_id |-> chunk_id,
   extraction_method |-> "enhanced_llm",
   content_hash |-> md5_8(c.tid, c.len)]

\* variant: the length is taken before stripping
KeepCandidateUntrimmed(c) == c.kind = "text" /\ c.len + c.pad >= MinReqLen

\* the test at lines 341-347: the element is an object whose requirement,
\* stripped, has at least 10 characters
KeepCandidate(c) == c.kind = "text" /\ c.len >= MinReqLen

\* _validate_enhanced_requirements.  Reading .strip() of a requirement that
\* is not a string raises AttributeError, which aborts the whole call.
validate_enhanced_requirements(reqs, chunk_id) ==
  LET F[i \in 0..Len(reqs)] ==
        IF i = 0 THEN <<>>
        ELSE IF KeepCandidate(reqs[i])
               THEN Append(F[i - 1], ValidatedRecord(reqs[i], chunk_id, i))
               ELSE F[i - 1]
  IN IF \E i \in 1..Len(reqs) : reqs[i].kind = "nonstr"
       THEN [raised |-> TRUE, recs |-> <<>>]
       ELSE [raised |-> FALSE, recs |-> F[Len(reqs)]]

(* --------------------------- pattern fallback -------------------------- *)
\* the keys of category_keywords in the order of the table (lines 446-456)
CategoryOrder ==
  <<"capital_adequacy", "risk_management", "reporting", "liquidity",
    "governance", "operational", "credit_risk", "market_risk", "compliance">>

\* _classify_requirement_category: the first category of the table of which
\* the text contains a keyword, general when there is none
classify_requirement_category(cats) ==
  IF \E i \in 1..Len(CategoryOrder) : CategoryOrder[i] \in cats
    THEN CategoryOrder[CHOOSE i \in 1..Len(CategoryOrder) :
                         /\ CategoryOrder[i] \in cats
                         /\ \A j \in 1..(i - 1) : CategoryOrder[j] \notin cats]
    ELSE "general"

\* _extract_enhanced_keywords, line 491: of the vocabulary words found in
\* the text (in the order the set lists them) the first ten are returned
extract_enhanced_keywords(found) ==
  SubSeq(found, 1, Min(Len(found), MaxKeywords))

\* the record built at lines 408-418 for the k-th kept span
FallbackRecord(span, chunk_id, k) ==
  [id |-> <<chunk_id, "FALLBACK", k>>,
   requirement |-> [kind |-> "text", tid |-> span.tid, len |-> span.len],
   category |-> classify_requirement_category(span.cats),
   priority |-> IF span.strong THEN "high" ELSE "medium",
   reference |-> <<"Chunk", chunk_id>>,
   keywords |-> extract_enhanced_keywords(span.keywords),
   chunk_id |-> chunk_id,
   extraction_method |-> "enhanced_fallback",
   content_hash |-> md5_8(span.tid, span.len)]

\* variant: the summary record carries the tag of the pattern fallback
SummaryRecordAsFallback(text, chunk_id) ==
  [id |-> <<chunk_id, "SUMMARY", 1>>,
   requirement |-> [kind |-> "summary", tid |-> text.tid,
                    len |-> SummaryPrefixLen
                            + (IF text.chars > SummaryLen THEN SummaryLen + 3
                               ELSE text.chars)],
   category |-> "review_required",
   priority |-> "low",
   reference |-> <<"Chunk", chunk_id>>,
   keywords |-> <<"manual_review">>,
   chunk_id |-> chunk_id,
   extraction_method |-> "enhanced_fallback"]

\* variant: the whole text is embedded
SummaryRecordUncut(text, chunk_id) ==
  [id |-> <<chunk_id, "SUMMARY", 1>>,
   requirement |-> [kind |-> "summary", tid |-> text.tid,
                    len |-> SummaryPrefixLen + text.chars],
   category |-> "review_required",
   priority |-> "low",
   reference |-> <<"Chunk", chunk_id>>,
   keywords |-> <<"manual_review">>,
   chunk_id |-> chunk_id,
   extraction_method |-> "summary_fallback"]

\* the record built at lines 427-437: the text is the fixed prefix followed
\* by the first 300 characters of the response (plus "..." when cut)
SummaryRecord(text, chunk_id) ==
  [id |-> <<chunk_id, "SUMMARY", 1>>,
   requirement |-> [kind |-> "summary", tid |-> text.tid,
                    len |-> SummaryPrefixLen
                            + (IF text.chars > SummaryLen THEN SummaryLen + 3
                               ELSE text.chars)],
   category |-> "review_required",
   priority |-> "low",
   reference |-> <<"Chunk", chunk_id>>,
   keywords |-> <<"manual_review">>,
   chunk_id |-> chunk_id,
   extraction_method |-> "summary_fallback"]

\* the length test at line 399
KeepSpan(span) == span.len > SpanMinLen /\ span.len < SpanMaxLen

\* the spans of one scan that pass the length test, as records
ScanRecords(spans, chunk_id) ==
  LET F[i \in 0..Len(spans)] ==
        IF i = 0 THEN <<>>
        ELSE IF KeepSpan(spans[i])
               THEN Append(F[i - 1], FallbackRecord(spans[i], chunk_id, Len(F[i - 1]) + 1))
               ELSE F[i - 1]
  IN F[Len(spans)]

\* as extract_fallback_requirements, without the summary record
extract_fallback_requirements_no_summary(text, chunk_id, aggressive) ==
  LET std == ScanRecords(text.std, chunk_id)
      agg == ScanRecords(text.agg, chunk_id)
  IN IF ~aggressive /\ std # <<>>
       THEN [recs |-> std, trace |-> <<[tier |-> "pattern", n |-> Len(std)]>>]
     ELSE [recs |-> agg,
           trace |-> (IF aggressive THEN <<>> ELSE <<[tier |-> "pattern", n |-> 0]>>)
                     \o <<[tier |-> "aggressive", n |-> Len(agg)]>>]

\* _extract_fallback_requirements.  Returns the records and the scans that
\* ran ("pattern" = standard scan, "aggressive", "summary"), each with the
\* number of records it produced.
RECURSIVE extract_fallback_requirements(_, _, _)
extract_fallback_requirements(text, chunk_id, aggressive) ==
  LET recs == ScanRecords(IF aggressive THEN text.agg ELSE text.std, chunk_id)
      step == [tier |-> IF aggressive THEN "aggressive" ELSE "pattern", n |-> Len(recs)]
  IN IF recs = <<>> /\ ~aggressive
       THEN LET r == extract_fallback_requirements(text, chunk_id, TRUE)
            IN [recs |-> r.recs, trace |-> <<step>> \o r.trace]
     ELSE IF recs = <<>>
       THEN [recs |-> <<SummaryRecord(text, chunk_id)>>,
             trace |-> <<step, [tier |-> "summary", n |-> 1]>>]
     ELSE [recs |-> recs, trace |-> <<step>>]

(* --------------------------- parsing cascade --------------------------- *)
\* A generation response: the stripped text (tid, chars, std, agg as for
\* any text), the outcome of json.loads on the cleaned text ("invalid":
\* JSONDecodeError, "other": a value that is not an object holding a
\* requirements list, "reqlist": an object holding a requirements list,
\* whose elements are items), and the fragments matched by the tier-2
\* pattern \{[^{}]*"requirement"[^{}]*\}.
MkResponse(t, n, json, items, frags, std, agg) ==
  [tid |-> t, chars |-> n, json |-> json, items |-> items, frags |-> frags,
   std |-> std, agg |-> agg]

\* A tier-2 fragment: "bad" does not parse, "nokey" parses to an object
\* without a requirement key, "cand" parses to an object with one.
Frag(parse, cand) == [parse |-> parse, cand |-> cand]

\* lines 317-325: the fragments that parse to an object with a requirement
\* key, each given the id <chunk_id>_ALT<i> when it has none
AltCandidates(frags, chunk_id) ==
  LET F[i \in 0..Len(frags)] ==
        IF i = 0 THEN <<>>
        ELSE IF frags[i].parse = "cand"
               THEN Append(F[i - 1],
                           [frags[i].cand EXCEPT
                              !.id = IF @ = NoId THEN <<chunk_id, "ALT", i>> ELSE @])
               ELSE F[i - 1]
  IN F[Len(frags)]

\* _alternative_json_parsing: an exception of the validation is caught
\* (line 330) and leads to the pattern fallback like an empty candidate list.
\* The trace entry also tells how many candidates were found and whether
\* their validation raised.
alternative_json_parsing(response, chunk_id) ==
  LET cands == AltCandidates(response.frags, chunk_id)
      v == validate_enhanced_requirements(cands, chunk_id)
      f == extract_fallback_requirements(response, chunk_id, FALSE)
      raised == cands # <<>> /\ v.raised
  IN IF cands # <<>> /\ ~v.raised
       THEN [recs |-> v.recs,
             trace |-> <<[tier |-> "alternative", n |-> Len(v.recs),
                          found |-> Len(cands), raised |-> FALSE]>>]
       ELSE [recs |-> f.recs,
             trace |-> <<[tier |-> "alternative", n |-> 0,
                          found |-> Len(cands), raised |-> raised]>> \o f.trace]

\* variant: a requirements list of which no element is kept is passed on
\* to the next tiers
parse_cascading_on_empty(response, chunk_id) ==
  LET v == validate_enhanced_requirements(response.items, chunk_id)
      a == alternative_json_parsing(response, chunk_id)
  IN IF response.json = "reqlist" /\ (v.raised \/ v.recs # <<>>)
       THEN [raised |-> v.raised, recs |-> v.recs,
             trace |-> <<[tier |-> "structured", n |-> Len(v.recs)]>>]
       ELSE [raised |-> FALSE, recs |-> a.recs,
             trace |-> <<[tier |-> "structured", n |-> 0]>> \o a.trace]

\* _parse_enhanced_json_response: only JSONDecodeError is caught, so an
\* exception of the validation leaves the function (raised)
parse_enhanced_json_response(response, chunk_id) ==
  IF response.json = "reqlist"
    THEN LET v == validate_enhanced_requirements(response.items, chunk_id)
         IN [raised |-> v.raised, recs |-> v.recs,
             trace |-> <<[tier |-> "structured", n |-> Len(v.recs)]>>]
    ELSE LET a == alternative_json_parsing(response, chunk_id)
         IN [raised |-> FALSE, recs |-> a.recs,
             trace |-> <<[tier |-> "structured", n |-> 0]>> \o a.trace]

(* ---------------------------- error sentinel --------------------------- *)
\* _create_error_fallback: one record whose text holds the message and the
\* first 200 characters of the chunk's content
create_error_fallback(chunk, e) ==
  <<[id |-> <<chunk.chunk_id, "ERROR", 1>>,
     requirement |-> [kind |-> "error", tid |-> chunk.content.tid,
                      preview |-> Min(chunk.content.chars, PreviewLen),
                      len |-> ErrorFixedLen + e.msglen
                              + Min(chunk.content.chars, PreviewLen)],
     category |-> "error",
     priority |-> "high",
     reference |-> <<"Chunk", chunk.chunk_id>>,
     keywords |-> <<"manual_review", "extraction_error", "system_failure">>,
     chunk_id |-> chunk.chunk_id,
     extraction_method |-> "error_fallback",
     error |-> e,
     requires_manual_review |-> TRUE]>>

(* ------------------------------- inputs -------------------------------- *)
\* a span only the aggressive patterns match
SpanOk == Span(41, 60, TRUE, {"capital_adequacy"}, <<"capital", "buffer">>)
\* the span the standard and two of the aggressive patterns match in "Banks
\* must maintain a minimum capital buffer of 2.5% within 12 months.": it
\* ends at the first full stop
SpanSentence ==
  Span(47, 50, TRUE, {"capital_adequacy"},
       <<"maintain", "capital", "buffer", "bank">>)
\* a span only the standard patterns match
SpanStdOnly == Span(46, 21, FALSE, {}, <<>>)
SpanWeak == Span(42, 21, FALSE, {}, <<>>)
SpanShort == Span(43, 20, TRUE, {}, <<>>)
SpanLong == Span(44, 500, TRUE, {"reporting"}, <<"report">>)
SpanRich ==
  Span(45, 140, TRUE, {"liquidity", "reporting", "capital_adequacy", "risk_management"},
       <<"assess", "monitor", "report", "maintain", "capital", "risk",
         "liquidity", "ratio", "buffer", "bank", "annual">>)

\* chunk contents: blank; ordinary; ordinary and short; mostly special characters; short and
\* poor (score below 20 once the padding is stripped); oversized; oversized
\* and mostly special characters; seven words of two characters, two of the
\* twenty characters special (score exactly 20)
TBlank == MkText(1, 0, 0, 0, 3, 0, 0, 0, <<>>, <<>>)
TPlain ==
  MkText(2, 60, 5, 0, 4, 1, 2, 6, <<SpanSentence>>,
         <<SpanSentence, SpanSentence>>)
TNoisy ==
  MkText(3, 60, 5, 150, 0, 0, 0, 0, <<SpanSentence>>,
         <<SpanShort, SpanSentence, SpanOk, SpanWeak, SpanRich, SpanSentence>>)
TPoor == MkText(4, 5, 4, 5, 30, 0, 0, 0, <<SpanStdOnly>>, <<>>)
TBrief == MkText(7, 12, 5, 0, 6, 1, 1, 1, <<>>, <<>>)
TLarge == MkText(5, 2501, 1, 0, 0, 0, 3, 90, <<>>, <<>>)
TLargeNoisy == MkText(6, 2501, 1, 2501, 0, 0, 0, 0, <<>>, <<SpanLong>>)
TEdge == MkText(8, 7, 2, 2, 0, 0, 0, 0, <<>>, <<>>)

ChunkTexts == {TBlank, TPlain, TBrief, TNoisy, TPoor, TLarge, TLargeNoisy, TEdge}

\* keywords lists a response may carry
LlmKeywords(n) ==
  SubSeq(<<"k01", "k02", "k03", "k04", "k05", "k06", "k07", "k08", "k09",
           "k10", "k11">>, 1, n)

\* elements of a requirements list
CandOk == Cand("text", 21, 10, 0, NoId, {})
CandFull ==
  WithKeywords(Cand("text", 22, 34, 2, LlmId, OptionalFields \ {"id"}),
               LlmKeywords(MaxKeywords + 1))
CandShort == Cand("text", 23, 9, 3, NoId, {"category"})
CandEmpty == Cand("text", 24, 0, 0, NoId, {})
CandNonStr == Cand("nonstr", 0, 0, 0, NoId, {})
CandAbsent == Cand("absent", 0, 0, 0, LlmId, {"priority"})
CandNonDict == Cand("nondict", 0, 0, 0, NoId, {})
\* the text of SpanSentence, surrounded by whitespace
CandSpan ==
  WithKeywords(Cand("text", 47, 50, 2, NoId, {}), LlmKeywords(MaxKeywords))

ListItems ==
  {CandOk, CandFull, CandShort, CandEmpty, CandNonStr, CandAbsent, CandNonDict,
   CandSpan}

Fragments ==
  {Frag("bad", CandEmpty), Frag("nokey", CandAbsent)}
  \cup {Frag("cand", c) : c \in {CandOk, CandFull, CandShort, CandNonStr}}

SeqsUpTo(S, n) == UNION { [1..k -> S] : k \in 0..n }

\* responses that hold a requirements list
ListResponses ==
  { MkResponse(50, 120, "reqlist", items, <<>>, <<>>, <<>>) :
      items \in SeqsUpTo(ListItems, MaxItems) }

\* responses without one, with tier-2 fragments
FragmentResponses ==
  { MkResponse(51, 120, json, <<>>, frags, <<SpanStdOnly>>, <<>>) :
      json \in {"invalid", "other"}, frags \in SeqsUpTo(Fragments, MaxItems) \ {<<>>} }

\* responses without fragments: only the pattern scans and the summary
ProseResponses ==
  { MkResponse(52, n, json, <<>>, <<>>, std, agg) :
      n \in {0, 300, 301}, json \in {"invalid", "other"},
      std \in {<<>>, <<SpanShort, SpanLong>>, <<SpanWeak, SpanSentence>>},
      agg \in {<<>>, <<SpanShort>>, <<SpanOk, SpanOk>>} }

Responses == ListResponses \cup FragmentResponses \cup ProseResponses

\* a generation capability with few behaviours, for documents of several
\* chunks and for oversized chunks
CoreResponses ==
  { MkResponse(50, 120, "reqlist", <<>>, <<>>, <<>>, <<>>),
    MkResponse(50, 120, "reqlist", <<CandShort, CandOk>>, <<>>, <<>>, <<>>),
    MkResponse(50, 120, "reqlist", <<CandNonStr>>, <<>>, <<>>, <<>>),
    MkResponse(50, 120, "reqlist", <<CandSpan>>, <<>>, <<>>, <<>>),
    MkResponse(51, 120, "invalid", <<>>, <<Frag("cand", CandFull)>>, <<>>, <<>>),
    MkResponse(52, 301, "other", <<>>, <<>>, <<SpanShort>>, <<SpanOk>>),
    MkResponse(52, 301, "invalid", <<>>, <<>>, <<>>, <<>>) }

\* the texts a generation capability may return
Generate(capability) == IF capability = "rich" THEN Responses ELSE CoreResponses

(* ------------------------- extract_requirements ------------------------ *)
\* The exception raised by a failing generation call and the AttributeError
\* raised by the validation, with the lengths of their messages.
GenerationError == [type |-> "GenerationError", msglen |-> 18]
AttributeError == [type |-> "AttributeError", msglen |-> 44]
NoError == [type |-> "none", msglen |-> 0]

\* variant: no test for blank content
RouteNoEmptyCheck(content) ==
  LET quality == assess_content_quality(preprocess_content(content))
  IN IF quality.likely_corrupted THEN "corrupted"
     ELSE IF quality.needs_splitting THEN "large"
     ELSE "standard"

\* variant: the size test comes before the corruption test
RouteSplitFirst(content) ==
  LET quality == assess_content_quality(preprocess_content(content))
  IN IF IsBlank(content) THEN "empty"
     ELSE IF quality.needs_splitting THEN "large"
     ELSE IF quality.likely_corrupted THEN "corrupted"
     ELSE "standard"

\* lines 113-131: the decision policy on a chunk's content
Route(content) ==
  LET quality == assess_content_quality(preprocess_content(content))
  IN IF IsBlank(content) THEN "empty"
     ELSE IF quality.likely_corrupted THEN "corrupted"
     ELSE IF quality.needs_splitting THEN "large"
     ELSE "standard"

\* variant: a failure of the last attempt is not re-raised
AttemptDecisionNoRaise(attempt, failed, recs) ==
  IF failed THEN "retry"
  ELSE IF recs # <<>> \/ attempt = 1 THEN "return"
  ELSE "retry"

\* variant: an empty list is accepted on every attempt
AttemptDecisionAcceptEmpty(attempt, failed, recs) ==
  IF failed THEN (IF attempt = 1 THEN "raise" ELSE "retry")
  ELSE "return"

\* lines 150-157: what the loop does after an attempt whose body raised
\* (failed) or produced the list recs
AttemptDecision(attempt, failed, recs) ==
  IF failed THEN (IF attempt = 1 THEN "raise" ELSE "retry")
  ELSE IF recs # <<>> \/ attempt = 1 THEN "return"
  ELSE "retry"

\* variant: the handler falls back to the pattern scan of the content
OuterHandlerPatternFallback(chunk, e) ==
  [raised |-> FALSE,
   result |-> extract_fallback_requirements(preprocess_content(chunk.content),
                                            chunk.chunk_id, FALSE).recs]

\* variant: the handler lets the exception through
OuterHandlerReraises(chunk, e) ==
  [raised |-> TRUE, result |-> <<>>]

\* lines 161-163: the handler around the whole body
OuterHandler(chunk, e) ==
  [raised |-> FALSE, result |-> create_error_fallback(chunk, e)]

\* text_splitter.split_text: pieces of at most 3000 characters that cover
\* the content; which pieces is the splitter's choice
SubPieces ==
  { MkText(31, 1300, 1, 0, 0, 0, 2, 40, <<>>, <<>>),
    MkText(32, 1300, 1, 1300, 0, 0, 0, 0, <<>>, <<SpanOk>>) }

RECURSIVE SumChars(_)
SumChars(seq) == IF seq = <<>> THEN 0 ELSE seq[1].chars + SumChars(Tail(seq))

split_text(content) ==
  { subs \in UNION { [1..k -> SubPieces] : k \in 1..MaxSubs } :
      /\ \A i \in 1..Len(subs) : subs[i].chars <= SubChunkSize
      /\ SumChars(subs) >= content.chars }

\* variant: the sub-chunks are counted from 0
TaggedFromZero(rec, chunk_id, n) ==
  [f \in DOMAIN rec \cup {"parent_chunk_id", "sub_chunk_index"} |->
     IF f = "parent_chunk_id" THEN chunk_id
     ELSE IF f = "sub_chunk_index" THEN n - 1
     ELSE rec[f]]

\* lines 185-187: the lineage tags written on a record of sub-chunk n
Tagged(rec, chunk_id, n) ==
  [f \in DOMAIN rec \cup {"parent_chunk_id", "sub_chunk_index"} |->
     IF f = "parent_chunk_id" THEN chunk_id
     ELSE IF f = "sub_chunk_index" THEN n
     ELSE rec[f]]

NewFrame(chunk) ==
  [chunk |-> chunk, pc |-> "entry", attempt |-> 0, processed |-> chunk.content,
   subs |-> <<>>, i |-> 0, all |-> <<>>, parts |-> <<>>, subres |-> <<>>,
   log |-> <<>>]

\* the tier that produced the records of a cascade run
LastTier(trace) == trace[Len(trace)].tier

\* how a call ended: the route taken, the list returned (or the exception
\* that escaped), whether the outer handler ran, the tier that produced the
\* records ("none" when the call built none itself), the attempts made and,
\* for an oversized chunk, the number of records of each sub-chunk and the
\* list each sub-chunk's call returned
Outcome(frame, route, raised, handled, result, exc, tier) ==
  [chunk |-> frame.chunk, route |-> route, raised |-> raised,
   handled |-> handled, result |-> result, exc |-> exc, tier |-> tier,
   log |-> frame.log, parts |-> frame.parts, subres |-> frame.subres]

\* the call of frame ends with the exception e inside the body
Caught(frame, route, e) ==
  LET h == OuterHandler(frame.chunk, e)
  IN Outcome(frame, route, h.raised, TRUE, h.result, e, "error")

\* Control returns to the callers (innermost last) of a call that ended
\* with out: _process_large_chunk tags and collects the records (lines
\* 185-189); an exception leaves it and reaches the caller's handler.
RECURSIVE Unwind(_, _)
Unwind(callers, out) ==
  IF callers = <<>> THEN [stack |-> <<>>, top |-> TRUE, out |-> out]
  ELSE LET f == callers[Len(callers)]
           rest == SubSeq(callers, 1, Len(callers) - 1)
       IN IF out.raised
            THEN Unwind(rest, Caught(f, "large", out.exc))
            ELSE [stack |-> Append(rest,
                     [f EXCEPT !.i = @ + 1,
                               !.parts = Append(@, Len(out.result)),
                               !.subres = Append(@, out.result),
                               !.all = @ \o [k \in 1..Len(out.result) |->
                                  Tagged(out.result[k], f.chunk.chunk_id, f.i + 1)]]),
                  top |-> FALSE, out |-> out]

\* variant: the records are appended one by one
StoreExtend(reqs, result) == reqs \o result

\* line 182 of the workflow: the result of a chunk is stored as one entry
Store(reqs, result) == Append(reqs, result)

Tiers == {"structured", "alternative", "pattern", "summary", "error"}

TagsOf(recs) == {recs[k].extraction_method : k \in 1..Len(recs)}

\* the innermost call ends with out
Finish(out) ==
  LET u == Unwind(SubSeq(stack, 1, Len(stack) - 1), out)
  IN /\ stack' = u.stack
     /\ lastRet' = u.out
     /\ tagsSeen' = IF out.tier \in Tiers /\ ~out.raised
                      THEN [tagsSeen EXCEPT ![out.tier] = @ \cup TagsOf(out.result)]
                      ELSE tagsSeen
     /\ IF u.top
          THEN IF u.out.raised
                 THEN /\ wfpc' = "failed"
                      /\ UNCHANGED <<requirements, idx>>
                 ELSE /\ requirements' = Store(requirements, u.out.result)
                      /\ idx' = idx + 1
                      /\ wfpc' = wfpc
          ELSE UNCHANGED <<requirements, idx, wfpc>>

\* the innermost call goes on as frame
Continue(frame) ==
  /\ stack' = [stack EXCEPT ![Len(stack)] = frame]
  /\ UNCHANGED <<requirements, idx, wfpc, lastRet, tagsSeen>>

Top == stack[Len(stack)]

\* _extract_requirements of the workflow, lines 163-175: the next chunk is
\* passed to extract_requirements
ProcessChunk ==
  /\ wfpc = "extract" /\ stack = <<>> /\ idx < Len(chunks)
  /\ stack' = <<NewFrame([content |-> chunks[idx + 1].content,
                          chunk_id |-> chunks[idx + 1].chunk_id])>>
  /\ entered' = Append(entered, chunks[idx + 1].chunk_id)
  /\ UNCHANGED <<chunks, idx, requirements, wfpc, llm, lastRet, tagsSeen, doc, ck, made>>

\* the tier of a fallback run: both scans are tier 3 ("pattern")
FallbackTier(trace) ==
  IF LastTier(trace) = "summary" THEN "summary" ELSE "pattern"

\* extract_requirements, lines 109-134: up to the first generation call
Enter ==
  /\ stack # <<>> /\ Top.pc = "entry"
  /\ LET content == Top.chunk.content
         processed == preprocess_content(content)
         route == Route(content)
         fb == extract_fallback_requirements(processed, Top.chunk.chunk_id, TRUE)
     IN CASE route = "empty" ->
               Finish(Outcome(Top, route, FALSE, FALSE, <<>>, NoError, "none"))
          [] route = "corrupted" ->
               Finish(Outcome(Top, route, FALSE, FALSE, fb.recs, NoError,
                              FallbackTier(fb.trace)))
          [] route = "large" ->
               \E subs \in split_text(processed) :
                  Continue([Top EXCEPT !.pc = "large", !.processed = processed,
                                       !.subs = subs])
          [] route = "standard" ->
               Continue([Top EXCEPT !.pc = "attempt", !.processed = processed])
  /\ UNCHANGED <<chunks, llm, entered, doc, ck, made>>

\* lines 137-159 after one pass of the loop: the pass is recorded as ev, its
\* body raised e (failed) or produced recs by tier
AfterAttempt(ev, failed, e, recs, tier) ==
  LET f == [Top EXCEPT !.log = Append(@, ev)]
      d == AttemptDecision(Top.attempt, failed, recs)
  IN CASE d = "return" ->
            Finish(Outcome(f, "standard", FALSE, FALSE, recs, NoError, tier))
       [] d = "raise" -> Finish(Caught(f, "standard", e))
       [] d = "retry" ->
            IF Top.attempt + 1 < Attempts
              THEN Continue([f EXCEPT !.attempt = @ + 1])
              ELSE Finish(Outcome(f, "standard", FALSE, FALSE, <<>>, NoError, "none"))

\* the generation call returns the text r, which is parsed (lines 139-152)
AttemptWith(r) ==
  LET p == parse_enhanced_json_response(r, Top.chunk.chunk_id)
      tier == IF LastTier(p.trace) \in {"structured", "alternative"}
                THEN LastTier(p.trace) ELSE FallbackTier(p.trace)
      ev == [attempt |-> Top.attempt,
             outcome |-> IF p.raised THEN "parse_error" ELSE "parsed",
             json |-> r.json, recs |-> p.recs, trace |-> p.trace,
             text |-> [tid |-> r.tid, chars |-> r.chars]]
  IN AfterAttempt(ev, p.raised, AttributeError, p.recs, tier)

Invoke ==
  /\ stack # <<>> /\ Top.pc = "attempt"
  /\ \E r \in Generate(llm) : AttemptWith(r)
  /\ UNCHANGED <<chunks, llm, entered, doc, ck, made>>

\* the generation call fails
InvokeFails ==
  /\ stack # <<>> /\ Top.pc = "attempt"
  /\ AfterAttempt([attempt |-> Top.attempt, outcome |-> "fail", json |-> "none",
                   recs |-> <<>>, trace |-> <<>>,
                   text |-> [tid |-> 0, chars |-> 0]],
                  TRUE, GenerationError, <<>>, "none")
  /\ UNCHANGED <<chunks, llm, entered, doc, ck, made>>

\* _process_large_chunk, lines 172-182: the next sub-chunk is extracted
\* (nesting is explored up to MaxDepth calls)
SubCall ==
  /\ stack # <<>> /\ Top.pc = "large" /\ Top.i < Len(Top.subs)
  /\ Len(stack) < MaxDepth
  /\ stack' = Append(stack,
       NewFrame([content |-> Top.subs[Top.i + 1],
                 chunk_id |-> Append(Top.chunk.chunk_id, Top.i + 1)]))
  /\ UNCHANGED <<chunks, idx, requirements, wfpc, llm, lastRet, entered, tagsSeen, doc, ck, made>>

\* _process_large_chunk, line 191: all sub-chunks are done
FinishLarge ==
  /\ stack # <<>> /\ Top.pc = "large" /\ Top.i = Len(Top.subs)
  /\ Finish(Outcome(Top, "large", FALSE, FALSE, Top.all, NoError, "none"))
  /\ UNCHANGED <<chunks, llm, entered, doc, ck, made>>

\* _extract_requirements of the workflow, lines 184-194: the loop is over
LoopEnd ==
  /\ wfpc = "extract" /\ stack = <<>> /\ idx = Len(chunks)
  /\ wfpc' = "done"
  /\ UNCHANGED <<chunks, idx, requirements, stack, llm, lastRet, entered, tagsSeen, doc, ck, made>>

Next ==
  \/ ProcessChunk
  \/ Enter
  \/ Invoke
  \/ InvokeFails
  \/ SubCall
  \/ FinishLarge
  \/ LoopEnd

(* ------------------------------ documents ----------------------------- *)
\* the chunks of a document: ids 1, 2, ... in order
MkChunks(texts) == [i \in 1..Len(texts) |-> [chunk_id |-> <<i>>, content |-> texts[i]]]

NoRet ==
  [chunk |-> [chunk_id |-> <<>>, content |-> TBlank], route |-> "none",
   raised |-> FALSE, handled |-> FALSE, result |-> <<>>, exc |-> NoError,
   tier |-> "none", log |-> <<>>, parts |-> <<>>, subres |-> <<>>]

\* no document is being segmented
NoDoc == [content |-> <<>>, chunk_size |-> 0, overlap |-> 0, doc_type |-> "policy"]

NotChunking == [pc |-> "idle"]

\* One chunk of any kind with the rich capability (a single call of
\* extract_requirements by any caller, blank content included), or one
\* oversized chunk or a document of several ordinary chunks with the core
\* capability.
Init ==
  /\ \/ /\ chunks \in {MkChunks(<<t>>) : t \in ChunkTexts \ {TLarge}}
        /\ llm = "rich"
     \/ /\ chunks \in {MkChunks(<<t>>) : t \in {TLarge, TLargeNoisy}}
        /\ llm = "core"
     \/ /\ chunks \in {MkChunks(ts) : ts \in UNION {[1..k -> {TPlain, TNoisy, TPoor}] : k \in 2..MaxChunks}}
        /\ llm = "core"
  /\ idx = 0
  /\ requirements = <<>>
  /\ wfpc = "extract"
  /\ stack = <<>>
  /\ lastRet = NoRet
  /\ entered = <<>>
  /\ tagsSeen = [t \in Tiers |-> {}]
  /\ doc = NoDoc
  /\ ck = NotChunking
  /\ made = <<>>

Spec == Init /\ [][Next]_vars

\* the program is sequential and keeps running: a step that can be taken is
\* taken; every generation call returns (Invoke) or fails (InvokeFails)
FairSpec == Init /\ [][Next]_vars /\ WF_vars(Next)

(* ------------------------------- chunker ------------------------------- *)
\* ChunkerAgent() as the workflow constructs it
DefaultChunkSize == 30000
DefaultOverlap == 200
\* content of fewer characters after strip() is refused
MinContentLen == 10
\* a terminator counts when it lies in the last BreakWindow characters
BreakWindow == 200

\* A text is the sequence of its characters; a fragment is a text with the
\* offset (0-based) in the caller's content of its first character and, for
\* the k-th piece _split_large_section makes of a section, the number k (0
\* for a section), which the code does not keep and the properties use.
IsWs(c) == c \in {" ", "\n", "\t"}

Rep(c, n) == [i \in 1..n |-> c]

Ink(s) == {i \in 1..Len(s) : ~IsWs(s[i])}

MinOf(S) == CHOOSE x \in S : \A y \in S : x <= y

MaxOf(S) == CHOOSE x \in S : \A y \in S : x >= y

\* the number of leading whitespace characters str.strip() removes
Lead(s) == IF Ink(s) = {} THEN Len(s) ELSE MinOf(Ink(s)) - 1

\* str.strip()
strip(s) == IF Ink(s) = {} THEN <<>> ELSE SubSeq(s, MinOf(Ink(s)), MaxOf(Ink(s)))

\* str.lstrip('\n')
lstrip_nl(s) ==
  LET other == {i \in 1..Len(s) : s[i] # "\n"}
  IN  IF other = {} THEN <<>> ELSE SubSeq(s, MinOf(other), Len(s))

\* the 0-based indexes at which p occurs in s
Occurrences(s, p) == {j \in 0..(Len(s) - Len(p)) : SubSeq(s, j + 1, j + Len(p)) = p}

\* p in s
Contains(s, p) == Occurrences(s, p) # {}

\* str.rfind(p): the highest index at which p occurs, or -1
rfind(s, p) == IF Occurrences(s, p) = {} THEN -1 ELSE MaxOf(Occurrences(s, p))

\* str.split(p): the parts between the occurrences of p taken from left to
\* right without overlap, each with its offset in s
RECURSIVE SplitFrom(_, _, _)
SplitFrom(s, p, from) ==
  LET next == {j \in Occurrences(s, p) : j >= from}
  IN  IF next = {}
      THEN <<[text |-> SubSeq(s, from + 1, Len(s)), off |-> from]>>
      ELSE <<[text |-> SubSeq(s, from + 1, MinOf(next)), off |-> from]>>
             \o SplitFrom(s, p, MinOf(next) + Len(p))

split(s, p) == SplitFrom(s, p, 0)

\* the index a slice bound denotes in a text of n characters
SliceIndex(i, n) == IF i < 0 THEN Max(0, n + i) ELSE Min(i, n)

\* s[a:b]
Slice(s, a, b) == SubSeq(s, SliceIndex(a, Len(s)) + 1, SliceIndex(b, Len(s)))

section_markers ==
  << <<"\n", "\n", "\n">>,
     <<"\n", "S", "e", "c", "t", "i", "o", "n", " ">>,
     <<"\n", "A", "r", "t", "i", "c", "l", "e", " ">>,
     <<"\n", "C", "h", "a", "p", "t", "e", "r", " ">>,
     <<"\n", "#", "#", "#", " ">>,
     <<"\n", "#", "#", " ">>,
     <<"\n", "#", " ">> >>

break_points ==
  << <<".", " ">>, <<".", "\n">>, <<"!", "\n">>, <<"?", "\n">>, <<"\n", "\n">> >>

\* as SplitSection, the marker not put back before the parts
SplitSectionMarkerLost(section, marker) ==
  IF ~Contains(section.text, marker)
  THEN <<section>>
  ELSE LET parts == split(section.text, marker)
           part(i) == [text |-> parts[i].text, at |-> section.at + parts[i].off,
                       piece |-> 0]
       IN  SelectSeq([i \in 1..Len(parts) |-> part(i)],
                     LAMBDA f : strip(f.text) # <<>>)

\* lines 74-82 for one section: the parts of a section the marker occurs in,
\* the marker without its newlines put back before every part but the first,
\* whitespace-only parts left out
SplitSection(section, marker) ==
  IF ~Contains(section.text, marker)
  THEN <<section>>
  ELSE LET parts == split(section.text, marker)
           head == lstrip_nl(marker)
           part(i) ==
             IF i > 1
             THEN [text |-> head \o parts[i].text,
                   at |-> section.at + parts[i].off - Len(head), piece |-> 0]
             ELSE [text |-> parts[i].text, at |-> section.at + parts[i].off,
                   piece |-> 0]
       IN  SelectSeq([i \in 1..Len(parts) |-> part(i)],
                     LAMBDA f : strip(f.text) # <<>>)

\* as SplitSections, the parts of a later section put before those of an
\* earlier one
RECURSIVE SplitSectionsLastFirst(_, _)
SplitSectionsLastFirst(sections, marker) ==
  IF sections = <<>> THEN <<>>
  ELSE SplitSectionsLastFirst(Tail(sections), marker) \o SplitSection(sections[1], marker)

\* lines 72-83: one marker applied across every current section
RECURSIVE SplitSections(_, _)
SplitSections(sections, marker) ==
  IF sections = <<>> THEN <<>>
  ELSE SplitSection(sections[1], marker) \o SplitSections(Tail(sections), marker)

\* lines 122-126: the cut of a window, after the right-most occurrence of the
\* first terminator that has one far enough to the right, else the window edge
RECURSIVE FirstBreak(_, _, _, _)
FirstBreak(chunk, start, end, k) ==
  IF k > Len(break_points) THEN end
  ELSE LET point == break_points[k]
           last_occurrence == rfind(chunk, point)
       IN  IF last_occurrence > Len(chunk) - BreakWindow
           THEN start + last_occurrence + Len(point)
           ELSE FirstBreak(chunk, start, end, k + 1)

\* as best_break, the window one character wider
best_break_wide(section, start, chunk_size) ==
  FirstBreak(Slice(section, start, start + chunk_size + 1), start, start + chunk_size + 1, 1)

best_break(section, start, chunk_size) ==
  FirstBreak(Slice(section, start, start + chunk_size), start, start + chunk_size, 1)

\* the fragment section[a:b] of a section, the k-th piece made of it
Piece(section, a, b, k) ==
  [text |-> Slice(section.text, a, b),
   at |-> section.at + SliceIndex(a, Len(section.text)),
   piece |-> k]

\* as next_start, the next window beginning at the cut
next_start_at_cut(cut, overlap) == cut

\* line 129
next_start(cut, overlap) == cut - overlap

\* The loop of _split_large_section is a function of start alone, so it never
\* exits once a value of start comes back; and below -(len + chunk_size) every
\* window is empty, the cut is start + 1 and start only goes down.
NeverExits(section, chunk_size, overlap, seen, next) ==
  \/ next \in seen
  \/ next < 0 - (Len(section.text) + chunk_size) /\ overlap >= 1

extractorVars ==
  <<chunks, idx, requirements, wfpc, stack, llm, lastRet, entered, tagsSeen>>

BeforeCall ==
  [pc |-> "call", sections |-> <<>>, marker |-> 1, final_chunks |-> <<>>, s |-> 1,
   start |-> 0, chunks |-> <<>>, seen |-> {}, i |-> 1]

\* lines 16-24: the entry of chunk_document; content that is empty or short
\* after strip() returns the empty list, other content is stripped
chunk_document ==
  /\ ck.pc = "call"
  /\ IF doc.content = <<>> \/ Len(strip(doc.content)) < MinContentLen
     THEN ck' = [ck EXCEPT !.pc = "done"]
     ELSE ck' = [ck EXCEPT !.pc = "markers",
                           !.sections = <<[text |-> strip(doc.content),
                                           at |-> Lead(doc.content),
                                           piece |-> 0]>>]
  /\ made' = <<>>
  /\ UNCHANGED <<doc, extractorVars>>

\* lines 71-83: one pass of the marker loop of intelligent_chunk
SplitByMarker ==
  /\ ck.pc = "markers"
  /\ ck.marker <= Len(section_markers)
  /\ ck' = [ck EXCEPT !.sections = SplitSections(@, section_markers[ck.marker]),
                      !.marker = @ + 1]
  /\ UNCHANGED <<doc, made, extractorVars>>

\* lines 85-87: the marker loop is over, the size loop begins
MarkersDone ==
  /\ ck.pc = "markers"
  /\ ck.marker > Len(section_markers)
  /\ ck' = [ck EXCEPT !.pc = "sizes", !.s = 1]
  /\ UNCHANGED <<doc, made, extractorVars>>

\* lines 88-89: a section within the limit passes unchanged
KeepSection ==
  /\ ck.pc = "sizes"
  /\ ck.s <= Len(ck.sections)
  /\ Len(ck.sections[ck.s].text) <= doc.chunk_size
  /\ ck' = [ck EXCEPT !.final_chunks = Append(@, ck.sections[ck.s]), !.s = @ + 1]
  /\ UNCHANGED <<doc, made, extractorVars>>

\* lines 90-92, 104-105: a larger section goes to _split_large_section
split_large_section ==
  /\ ck.pc = "sizes"
  /\ ck.s <= Len(ck.sections)
  /\ Len(ck.sections[ck.s].text) > doc.chunk_size
  /\ ck' = [ck EXCEPT !.pc = "split", !.start = 0, !.chunks = <<>>, !.seen = {}]
  /\ UNCHANGED <<doc, made, extractorVars>>

\* lines 107-129: one pass of the loop that does not reach the end of the
\* section
SplitWindow ==
  /\ ck.pc = "split"
  /\ LET section == ck.sections[ck.s]
         end == ck.start + doc.chunk_size
         cut == best_break(section.text, ck.start, doc.chunk_size)
         next == next_start(cut, doc.overlap)
     IN  /\ ck.start < Len(section.text)
         /\ end < Len(section.text)
         /\ ck' = [ck EXCEPT
                     !.chunks = Append(@, Piece(section, ck.start, cut, Len(@) + 1)),
                     !.seen = @ \cup {ck.start},
                     !.start = next,
                     !.pc = IF NeverExits(section, doc.chunk_size, doc.overlap,
                                          ck.seen \cup {ck.start}, next)
                            THEN "hung" ELSE "split"]
  /\ UNCHANGED <<doc, made, extractorVars>>

\* lines 107-113, 131, 92: the pass that reaches the end of the section (or
\* the loop condition failing); the pieces extend final_chunks
SplitReturns ==
  /\ ck.pc = "split"
  /\ LET section == ck.sections[ck.s]
         n == Len(section.text)
         pieces == IF ck.start < n
                   THEN Append(ck.chunks, Piece(section, ck.start, n, Len(ck.chunks) + 1))
                   ELSE ck.chunks
     IN  /\ ck.start < n => ck.start + doc.chunk_size >= n
         /\ ck' = [ck EXCEPT !.pc = "sizes", !.final_chunks = @ \o pieces,
                             !.chunks = <<>>, !.s = @ + 1]
  /\ UNCHANGED <<doc, made, extractorVars>>

\* lines 94, 27-29: intelligent_chunk returns, the result list is begun
SmartChunkReturns ==
  /\ ck.pc = "sizes"
  /\ ck.s > Len(ck.sections)
  /\ ck' = [ck EXCEPT !.pc = "build", !.i = 1]
  /\ made' = <<>>
  /\ UNCHANGED <<doc, extractorVars>>

\* lines 30-38: one pass of the loop that builds the chunks; i counts from 0
\* in the code and from 1 here
BuildChunk ==
  /\ ck.pc = "build"
  /\ ck.i <= Len(ck.final_chunks)
  /\ LET chunk == ck.final_chunks[ck.i]
     IN  made' = IF strip(chunk.text) # <<>>
                 THEN Append(made, [chunk_id |-> ck.i,
                                    content |-> strip(chunk.text),
                                    doc_type |-> doc.doc_type,
                                    char_count |-> Len(chunk.text),
                                    estimated_tokens |-> Len(chunk.text) \div 4,
                                    at |-> chunk.at + Lead(chunk.text),
                                    piece |-> chunk.piece])
                 ELSE made
  /\ ck' = [ck EXCEPT !.i = @ + 1]
  /\ UNCHANGED <<doc, extractorVars>>

\* line 46
ReturnResult ==
  /\ ck.pc = "build"
  /\ ck.i > Len(ck.final_chunks)
  /\ ck' = [ck EXCEPT !.pc = "done"]
  /\ UNCHANGED <<doc, made, extractorVars>>

(* ---------------------------- chunker inputs --------------------------- *)
MaxPad == 5
MaxParts == 3
MaxSentences == 3

Pad(k) == Rep(" ", k)

Word == <<"a", "b", "c", "d", "e", "f", "g", "h", "i", "j">>

Config(chunk_size, overlap) == [chunk_size |-> chunk_size, overlap |-> overlap]

Doc(content, config) ==
  [content |-> content, chunk_size |-> config.chunk_size,
   overlap |-> config.overlap, doc_type |-> "policy"]

\* nothing, whitespace only, nine and ten characters between whitespace
ShortTexts ==
  {Pad(p) \o SubSeq(Word, 1, n) \o Pad(q) :
     p \in {0, 2, MaxPad}, n \in {0, MinContentLen - 1, MinContentLen}, q \in {0, 2}}

\* parts joined by section markers; a part is a heading word and a sentence,
\* or whitespace
TextParts == {Word \o <<" ">> \o Word \o <<".">>, <<" ">>}

RECURSIVE Joined(_, _)
Joined(parts, markers) ==
  IF Len(parts) = 1 THEN parts[1]
  ELSE parts[1] \o section_markers[markers[1]] \o Joined(Tail(parts), Tail(markers))

MarkedTexts ==
  UNION {{Joined(ps, ms) : ps \in [1..k -> TextParts],
                           ms \in [1..(k - 1) -> 1..Len(section_markers)]} :
         k \in 2..MaxParts}

\* sentences of SentenceLen characters, each ended by a terminator
SentenceLen == 120

Letters == <<"a", "b", "c", "d", "e", "f">>

RECURSIVE Sentences(_, _)
Sentences(ends, k) ==
  IF k > Len(ends) THEN <<>>
  ELSE Rep(Letters[k], SentenceLen - 2) \o break_points[ends[k]] \o Sentences(ends, k + 1)

LongTexts ==
  UNION {{Sentences(ends, 1) \o Word : ends \in [1..k -> {1, 2, 5}]} : k \in 2..MaxSentences}

\* texts of one kind of character, with a terminator early or none
PlainTexts ==
  {Rep("a", 150), Rep("a", 300),
   Rep("a", 120) \o <<"!", "\n">> \o Rep("b", 200),
   Rep("a", 220) \o <<"?", "\n">> \o Rep("b", 100)}

\* a heading, a section marker and a section of several sentences
SectionedTexts == {Word \o section_markers[m] \o t : m \in {1, 2}, t \in LongTexts}

Docs ==
  {Doc(t, Config(DefaultChunkSize, DefaultOverlap)) : t \in ShortTexts \cup MarkedTexts}
  \cup {Doc(t, Config(250, 20)) : t \in SectionedTexts}
  \cup {Doc(t, Config(25, 0)) : t \in MarkedTexts}
  \cup {Doc(t, c) : t \in LongTexts, c \in {Config(250, 20), Config(300, 200)}}
  \cup {Doc(t, c) : t \in PlainTexts,
                    c \in {Config(100, 0), Config(100, 10), Config(100, 200),
                           Config(250, 20), Config(DefaultChunkSize, DefaultOverlap)}}

ChunkInit ==
  /\ doc \in Docs
  /\ ck = BeforeCall
  /\ made = <<>>
  /\ chunks = <<>>
  /\ llm = "core"
  /\ idx = 0
  /\ requirements = <<>>
  /\ wfpc = "chunk"
  /\ stack = <<>>
  /\ lastRet = NoRet
  /\ entered = <<>>
  /\ tagsSeen = [t \in Tiers |-> {}]

ChunkNext ==
  \/ chunk_document
  \/ SplitByMarker
  \/ MarkersDone
  \/ KeepSection
  \/ split_large_section
  \/ SplitWindow
  \/ SplitReturns
  \/ SmartChunkReturns
  \/ BuildChunk
  \/ ReturnResult

ChunkSpec == ChunkInit /\ [][ChunkNext]_vars

(* ------------------------------ properties ----------------------------- *)
Called == lastRet.route # "none"

LastEvent == lastRet.log[Len(lastRet.log)]

IsErrorSentinel(recs, chunk) ==
  /\ Len(recs) = 1
  /\ recs[1].extraction_method = "error_fallback"
  /\ recs[1].category = "error"
  /\ recs[1].chunk_id = chunk.chunk_id
  /\ recs[1].requirement.kind = "error"
  /\ recs[1].requirement.tid = chunk.content.tid
  /\ recs[1].requirement.preview = Min(chunk.content.chars, PreviewLen)

\* C1: extract_requirements never raises to its caller; whenever a failure
\* inside the call reaches its handler (a failed or unparsable last attempt)
\* the list returned is exactly one error sentinel with the chunk's id and a
\* preview of the chunk's content.
C1_NeverRaises ==
  /\ wfpc # "failed"
  /\ ~lastRet.raised
  /\ (lastRet.route = "standard" /\ LastEvent.outcome # "parsed") => lastRet.handled
  /\ lastRet.handled => IsErrorSentinel(lastRet.result, lastRet.chunk)

C1_Witness ==
  /\ lastRet.handled
  /\ lastRet.chunk.content = TBrief
  /\ lastRet.exc = AttributeError
  /\ lastRet.result[1].requirement.preview = 77

\* C2 as stated: the result is empty exactly when the content is blank.
C2_EmptyIffBlank ==
  Called => (lastRet.result = <<>> <=> IsBlank(lastRet.chunk.content))

\* the last attempt's response was accepted by tier 1 or tier 2 and the
\* validation kept none of its candidates
AcceptedEmpty(ev) ==
  /\ ev.outcome = "parsed"
  /\ ev.recs = <<>>
  /\ LastTier(ev.trace) \in {"structured", "alternative"}

\* C2 (amended): blank content gives an empty result; any other content
\* gives a non-empty result unless, on the standard path, neither attempt
\* produced a record and the second attempt's response was accepted by
\* tier 1 or 2 with no candidate kept, or, for an oversized chunk, every
\* sub-chunk gave an empty result.
C2_EmptyOnlyWhenAcceptedEmpty ==
  Called =>
    /\ IsBlank(lastRet.chunk.content) => lastRet.result = <<>>
    /\ (lastRet.result = <<>> /\ ~IsBlank(lastRet.chunk.content)) =>
         \/ /\ lastRet.route = "standard"
            /\ Len(lastRet.log) = Attempts
            /\ lastRet.log[1].recs = <<>>
            /\ AcceptedEmpty(lastRet.log[2])
         \/ /\ lastRet.route = "large"
            /\ \A k \in 1..Len(lastRet.parts) : lastRet.parts[k] = 0

C2_Witness ==
  /\ lastRet.route = "standard"
  /\ lastRet.result = <<>>
  /\ lastRet.log[1].outcome = "fail"
  /\ lastRet.log[2].json = "reqlist"

\* C3: two failed generation calls on a chunk of the standard path end the
\* call with exactly one error record for that chunk; nothing escapes.
C3_TwoFailuresOneErrorRecord ==
  /\ \A k \in 1..Len(stack) :
       ~(Len(stack[k].log) >= 2 /\ stack[k].log[1].outcome = "fail"
                                /\ stack[k].log[2].outcome = "fail")
  /\ (lastRet.route = "standard" /\ Len(lastRet.log) >= 2
      /\ lastRet.log[1].outcome = "fail" /\ lastRet.log[2].outcome = "fail") =>
       /\ ~lastRet.raised
       /\ wfpc # "failed"
       /\ IsErrorSentinel(lastRet.result, lastRet.chunk)
       /\ lastRet.exc = GenerationError

C3_Witness ==
  /\ lastRet.route = "standard"
  /\ Len(lastRet.log) = 2
  /\ lastRet.log[1].outcome = "fail"
  /\ lastRet.log[2].outcome = "fail"
  /\ Len(lastRet.result) = 1

NoRecords(ev) == ev.outcome # "parsed" \/ ev.recs = <<>>

\* C4: on the standard path the generation capability is invoked at most
\* twice; the second call is made exactly when the first attempt failed or
\* gave no record; records of a first attempt are returned at once; after a
\* failed first attempt a parsed second one is returned as it is, with no
\* error record; an empty result is only ever returned by the second attempt.
C4_AtMostTwoAttempts ==
  /\ \A k \in 1..Len(stack) :
       stack[k].pc = "attempt" =>
         /\ Len(stack[k].log) = stack[k].attempt
         /\ stack[k].attempt < Attempts
         /\ stack[k].attempt = 1 => NoRecords(stack[k].log[1])
  /\ lastRet.route = "standard" =>
       /\ Len(lastRet.log) \in 1..Attempts
       /\ Len(lastRet.log) = 2 <=> NoRecords(lastRet.log[1])
       /\ Len(lastRet.log) = 1 => lastRet.result = lastRet.log[1].recs
       /\ (Len(lastRet.log) = 2 /\ lastRet.log[2].outcome = "parsed") =>
            /\ lastRet.result = lastRet.log[2].recs
            /\ ~lastRet.handled
            /\ \A k \in 1..Len(lastRet.result) :
                 lastRet.result[k].extraction_method # "error_fallback"
       /\ lastRet.result = <<>> => Len(lastRet.log) = 2

C4_Witness ==
  /\ lastRet.route = "standard"
  /\ Len(lastRet.log) = 2
  /\ lastRet.log[1].outcome = "fail"
  /\ lastRet.log[2].outcome = "parsed"
  /\ lastRet.result # <<>>

IsPrefix(a, b) == Len(a) <= Len(b) /\ SubSeq(b, 1, Len(a)) = a

ChunkIds(n) == [i \in 1..n |-> chunks[i].chunk_id]

\* the loop passes the chunks in order, one at a time and each once, is not
\* stopped by a failure, and stores one entry per chunk in chunk order
LoopInOrder ==
  /\ wfpc # "failed"
  /\ idx <= Len(chunks)
  /\ Len(requirements) = idx
  /\ entered = ChunkIds(IF stack = <<>> THEN idx ELSE idx + 1)
  /\ stack # <<>> => stack[1].chunk.chunk_id = chunks[idx + 1].chunk_id
  /\ wfpc = "done" => idx = Len(chunks)
  /\ (stack = <<>> /\ idx > 0) => requirements[idx] = lastRet.result
  /\ \A i \in 1..Len(requirements) : \A k \in 1..Len(requirements[i]) :
       IsPrefix(chunks[i].chunk_id, requirements[i][k].chunk_id)

\* C5 as stated: after the loop there is one entry per chunk, in chunk
\* order, and every entry (of a chunk with content) holds at least one record.
C5_EveryEntryNonEmpty ==
  wfpc = "done" =>
    /\ LoopInOrder
    /\ \A i \in 1..Len(chunks) :
         ~IsBlank(chunks[i].content) => requirements[i] # <<>>

\* C5 (amended): chunks are passed to extract_requirements strictly in
\* order, one at a time and each once; a failure on one chunk does not stop
\* the later ones; after the loop there is exactly one entry per chunk in
\* chunk order, which holds the list extract_requirements returned for it:
\* at least one record whenever the chunk's generation calls failed or its
\* content was corrupted, possibly none otherwise.
C5_OneEntryPerChunkInOrder ==
  /\ LoopInOrder
  /\ (stack = <<>> /\ idx > 0 /\ lastRet.route = "corrupted") => requirements[idx] # <<>>
  /\ (stack = <<>> /\ idx > 0 /\ lastRet.handled) =>
       IsErrorSentinel(requirements[idx], chunks[idx])

C5_Witness ==
  /\ wfpc = "done"
  /\ Len(chunks) = 2
  /\ Len(requirements) = 2
  /\ IsErrorSentinel(requirements[1], chunks[1])
  /\ requirements[2] # <<>>
  /\ requirements[2][1].extraction_method = "enhanced_llm"

TierRank(t) ==
  CASE t = "structured" -> 1
    [] t = "alternative" -> 2
    [] t = "pattern" -> 3
    [] t = "aggressive" -> 4
    [] t = "summary" -> 5

\* the tiers of a cascade run follow the fixed order, each entered only
\* after every earlier one produced nothing
InTierOrder(trace) ==
  /\ trace[1].tier = "structured"
  /\ \A k \in 1..(Len(trace) - 1) :
       /\ trace[k].n = 0
       /\ TierRank(trace[k + 1].tier) = TierRank(trace[k].tier) + 1

ParsedEvents == {k \in 1..Len(lastRet.log) : lastRet.log[k].outcome = "parsed"}

\* C6 as stated: the next tier runs if and only if the tier before it
\* produced no record, so a cascade run never ends on a tier without records.
C6_NextTierIffNoRecord ==
  \A k \in ParsedEvents :
    LET t == lastRet.log[k].trace
    IN InTierOrder(t) /\ t[Len(t)].n > 0

\* C6 (amended): the tiers run in the order 1, 2, 3, 4, each only if every
\* earlier one returned no record, and no tier runs after one that produced
\* a record; tier 1 is accepted exactly when the parsed object holds a
\* requirements list, and an accepted tier 1, like a tier 2 that found a
\* candidate, ends the cascade even when validation kept no record; tier 4
\* runs exactly when both pattern scans kept no span.
C6_TierOrder ==
  \A k \in ParsedEvents :
    LET ev == lastRet.log[k]
        t == ev.trace
    IN /\ InTierOrder(t)
       /\ Len(t) = 1 <=> ev.json = "reqlist"
       /\ Len(ev.recs) = t[Len(t)].n
       /\ t[Len(t)].n = 0 => LastTier(t) \in {"structured", "alternative"}
       /\ LastTier(t) = "summary" => Len(t) = 5

C6_Witness ==
  /\ Len(lastRet.log) = 2
  /\ lastRet.log[1].trace = <<[tier |-> "structured", n |-> 0]>>
  /\ lastRet.log[1].outcome = "parsed"
  /\ lastRet.log[2].outcome = "parsed"
  /\ LastTier(lastRet.log[2].trace) = "summary"

Corrupted(content) ==
  assess_content_quality(preprocess_content(content)).likely_corrupted

Oversized(content) ==
  assess_content_quality(preprocess_content(content)).needs_splitting

\* C7: the policy is empty, likely_corrupted, needs_splitting, standard,
\* first match wins: for a corrupted chunk (oversized or not) no generation
\* call is made, the chunk is not re-segmented, and the result is the
\* aggressive pattern fallback on the preprocessed content.
C7_CorruptedSkipsGeneration ==
  /\ \A k \in 1..Len(stack) :
       LET c == stack[k].chunk.content
       IN /\ stack[k].pc = "large" => (~IsBlank(c) /\ ~Corrupted(c) /\ Oversized(c))
          /\ stack[k].pc = "attempt" => (~IsBlank(c) /\ ~Corrupted(c) /\ ~Oversized(c))
  /\ Called =>
       LET c == lastRet.chunk.content
       IN /\ IsBlank(c) => lastRet.route = "empty"
          /\ (~IsBlank(c) /\ Corrupted(c)) =>
               /\ lastRet.route = "corrupted"
               /\ lastRet.log = <<>>
               /\ lastRet.parts = <<>>
               /\ lastRet.result =
                    extract_fallback_requirements(preprocess_content(c),
                                                  lastRet.chunk.chunk_id, TRUE).recs
          /\ (~IsBlank(c) /\ ~Corrupted(c) /\ Oversized(c)) => lastRet.route = "large"
          /\ (~IsBlank(c) /\ ~Corrupted(c) /\ ~Oversized(c)) => lastRet.route = "standard"

C7_Witness ==
  /\ lastRet.route = "corrupted"
  /\ lastRet.chunk.content = TLargeNoisy
  /\ Oversized(TLargeNoisy)
  /\ Len(lastRet.result) = 1
  /\ lastRet.result[1].extraction_method = "summary_fallback"

AllReturned ==
  {lastRet.result[k] : k \in 1..Len(lastRet.result)}
  \cup UNION {{requirements[i][k] : k \in 1..Len(requirements[i])} :
                i \in 1..Len(requirements)}
  \cup UNION {{stack[j].all[k] : k \in 1..Len(stack[j].all)} : j \in 1..Len(stack)}

\* C8: every record returned, by any tier and after retries or
\* re-segmentation, has a requirement text of at least 10 characters after
\* stripping; shorter candidates are dropped.
C8_TextAtLeastTen ==
  \A rec \in AllReturned : rec.requirement.len >= MinReqLen

C8_Witness ==
  /\ llm = "core"
  /\ lastRet.route = "large"
  /\ Len(lastRet.result) = 2
  /\ lastRet.result[1].id = <<<<1, 1>>, "REQ", 2>>
  /\ lastRet.result[1].requirement.len = MinReqLen

ValidatedFields ==
  {"category", "priority", "reference", "keywords", "requirement_type",
   "deadline", "applies_to"}

IsFingerprint(h) == Len(h) = HashLen /\ \A k \in 1..Len(h) : h[k] \in 0..15

\* C9 as stated: every record of tiers 1 to 4 carries a fingerprint and a
\* value for each of the seven validated fields.
C9_AllTiersValidated ==
  \A rec \in AllReturned :
    rec.extraction_method # "error_fallback" =>
      /\ ValidatedFields \cup {"content_hash"} \subseteq DOMAIN rec
      /\ IsFingerprint(rec.content_hash)

\* C9 (amended): validation is applied to the records of tiers 1 and 2
\* only: each of them carries a fingerprint of 8 hex characters and a value
\* for each of category, priority, reference, keywords, requirement_type,
\* deadline and applies_to.  A tier-3 record carries a fingerprint,
\* category, priority, reference and keywords but no requirement_type,
\* deadline or applies_to; the tier-4 record carries category, priority,
\* reference and keywords and no fingerprint.
C9_ValidatedTiersOnly ==
  \A rec \in AllReturned :
    /\ rec.extraction_method = "enhanced_llm" =>
         /\ ValidatedFields \cup {"content_hash"} \subseteq DOMAIN rec
         /\ IsFingerprint(rec.content_hash)
    /\ rec.extraction_method = "enhanced_fallback" =>
         /\ {"category", "priority", "reference", "keywords", "content_hash"}
              \subseteq DOMAIN rec
         /\ IsFingerprint(rec.content_hash)
         /\ DOMAIN rec \cap {"requirement_type", "deadline", "applies_to"} = {}
    /\ rec.extraction_method = "summary_fallback" =>
         /\ {"category", "priority", "reference", "keywords"} \subseteq DOMAIN rec
         /\ DOMAIN rec \cap {"requirement_type", "deadline", "applies_to",
                             "content_hash"} = {}

C9_Witness ==
  /\ Len(lastRet.result) = 2
  /\ lastRet.tier = "structured"
  /\ lastRet.result[1].category = "general"
  /\ lastRet.result[1].deadline = ""
  /\ lastRet.result[2].category = "llm"

\* C10 as stated: the five sources of a record carry pairwise distinct tags.
C10_FiveDistinctTags ==
  \A t1, t2 \in Tiers : t1 # t2 => tagsSeen[t1] \cap tagsSeen[t2] = {}

ExpectedTag(t) ==
  CASE t = "structured" -> "enhanced_llm"
    [] t = "alternative" -> "enhanced_llm"
    [] t = "pattern" -> "enhanced_fallback"
    [] t = "summary" -> "summary_fallback"
    [] t = "error" -> "error_fallback"

\* C10 (amended): the extraction_method tells the source of a record up to
\* four tags: tier 1 and tier 2 records both carry enhanced_llm (a tier-2
\* record cannot be told from a tier-1 record by its tag), tier 3 records
\* enhanced_fallback, the tier-4 record summary_fallback and the error
\* sentinel error_fallback, and these four tags are pairwise distinct.
C10_FourTags ==
  /\ \A t \in Tiers : tagsSeen[t] \subseteq {ExpectedTag(t)}
  /\ (Called /\ lastRet.tier \in Tiers) =>
       \A k \in 1..Len(lastRet.result) :
         lastRet.result[k].extraction_method = ExpectedTag(lastRet.tier)

C10_Witness ==
  /\ tagsSeen["structured"] = {"enhanced_llm"}
  /\ tagsSeen["alternative"] = {"enhanced_llm"}
  /\ Len(requirements) = 2
  /\ requirements[1][1].id = <<<<1>>, "REQ", 2>>
  /\ requirements[2][1].id = LlmId

Fingerprinted == {rec \in AllReturned : "content_hash" \in DOMAIN rec}

\* C11: any two returned records that carry a fingerprint and have the same
\* stripped requirement text carry the same fingerprint, whatever their
\* chunk ids, record ids and producing tiers.
C11_FingerprintOfTextAlone ==
  \A r1, r2 \in Fingerprinted :
    r1.requirement = r2.requirement => r1.content_hash = r2.content_hash

C11_Witness ==
  \E r1, r2 \in Fingerprinted :
    /\ r1.requirement = r2.requirement
    /\ r1.extraction_method = "enhanced_llm"
    /\ r2.extraction_method = "enhanced_fallback"
    /\ r1.chunk_id # r2.chunk_id
    /\ r1.id[2] = "REQ" /\ r2.id[2] = "FALLBACK"
    /\ r1.content_hash = r2.content_hash

\* C12: every returned record has at most 10 keywords, whichever tier
\* produced it, also when its keywords come from the generation output.
C12_AtMostTenKeywords ==
  \A rec \in AllReturned : Len(rec.keywords) <= MaxKeywords

RECURSIVE SumLen(_)
SumLen(lists) == IF lists = <<>> THEN 0 ELSE Len(lists[1]) + SumLen(Tail(lists))

LineageTags == {"parent_chunk_id", "sub_chunk_index"}

\* C13: the result of an oversized chunk P is the concatenation of its
\* sub-chunks' results in sub-chunk order, and the record at place k of
\* sub-chunk n's result is returned with sub_chunk_index n, parent_chunk_id
\* P, a source chunk id that starts with P_SUBn, and otherwise unchanged.
C13_SubChunkLineage ==
  lastRet.route = "large" =>
    LET P == lastRet.chunk.chunk_id
        sub == lastRet.subres
    IN /\ Len(sub) >= 1
       /\ Len(lastRet.result) = SumLen(sub)
       /\ \A n \in 1..Len(sub) : \A k \in 1..Len(sub[n]) :
            LET rec == lastRet.result[SumLen(SubSeq(sub, 1, n - 1)) + k]
            IN /\ rec.sub_chunk_index = n
               /\ rec.parent_chunk_id = P
               /\ IsPrefix(Append(P, n), rec.chunk_id)
               /\ DOMAIN rec = DOMAIN sub[n][k] \cup LineageTags
               /\ \A f \in DOMAIN sub[n][k] \ LineageTags : rec[f] = sub[n][k][f]

C13_Witness ==
  /\ lastRet.route = "large"
  /\ lastRet.chunk.chunk_id = <<1>>
  /\ Len(lastRet.subres) = 2
  /\ Len(lastRet.subres[1]) = 1
  /\ Len(lastRet.subres[2]) = 1
  /\ lastRet.result[1].chunk_id = <<1, 1>>
  /\ lastRet.result[1].sub_chunk_index = 1
  /\ lastRet.result[1].extraction_method = "enhanced_llm"
  /\ lastRet.result[2].chunk_id = <<1, 2>>
  /\ lastRet.result[2].sub_chunk_index = 2
  /\ lastRet.result[2].extraction_method = "enhanced_fallback"

\* a call made for a sub-chunk is never itself re-segmented, so at most two
\* calls of extract_requirements are ever nested
NoNestedSplit ==
  /\ Len(stack) <= 2
  /\ \A k \in 2..Len(stack) :
       /\ stack[k].pc # "large"
       /\ stack[k].chunk.content.chars <= SubChunkSize
       /\ ~Oversized(stack[k].chunk.content)

\* C15: every call of extract_requirements eventually returns, given that
\* each generation call returns or fails: a sub-chunk has at most 3000
\* characters, never satisfies needs_splitting and is never re-segmented,
\* so the recursion ends at the second level.
C15_EveryCallReturns ==
  /\ []NoNestedSplit
  /\ (stack # <<>>) ~> (stack = <<>>)
  /\ <>(wfpc = "done")

C15_Witness ==
  /\ wfpc = "done"
  /\ lastRet.route = "large"
  /\ Oversized(lastRet.chunk.content)
  /\ Len(lastRet.subres) = 2
  /\ Len(lastRet.result) >= 2

AnyKept(spans) == \E i \in 1..Len(spans) : KeepSpan(spans[i])

\* the entries of a cascade run made by the given tier
StepsOf(trace, tier) == {j \in 1..Len(trace) : trace[j].tier = tier}

\* the text of a summary record made of a text of n characters
SummaryTextLen(n) ==
  SummaryPrefixLen + (IF n > SummaryLen THEN SummaryLen + 3 ELSE n)

IsSummary(recs, text) ==
  /\ Len(recs) = 1
  /\ recs[1].category = "review_required"
  /\ recs[1].extraction_method = "summary_fallback"
  /\ recs[1].requirement.kind = "summary"
  /\ recs[1].requirement.tid = text.tid
  /\ recs[1].requirement.len = SummaryTextLen(text.chars)
  /\ recs[1].requirement.len <= SummaryPrefixLen + SummaryLen + 3

HasSummary(recs) ==
  \E k \in 1..Len(recs) : recs[k].category = "review_required"

\* C16 as stated: a parsed response ends in the summary record exactly when
\* tiers 1, 2 and 3 yielded no record.
C16_SummaryIffNoTierYielded ==
  \A k \in ParsedEvents :
    LET ev == lastRet.log[k]
    IN HasSummary(ev.recs) <=>
         \A j \in 1..Len(ev.trace) :
           ev.trace[j].tier # "summary" => ev.trace[j].n = 0

\* C16 (amended): the summary fallback emits exactly one review_required
\* record whose text embeds at most the first 300 characters of the scanned
\* text.  For a response it is emitted exactly when tier 1 was not accepted
\* (no requirements list), tier 2 found no parseable candidate or its
\* validation raised, and neither pattern scan kept a span; for a corrupted
\* chunk it is emitted exactly when the aggressive scan of the preprocessed
\* content kept no span, and then embeds that content.
C16_SummaryWhenPatternsFindNothing ==
  /\ \A k \in ParsedEvents :
       LET ev == lastRet.log[k]
           t == ev.trace
           due == /\ ev.json # "reqlist"
                  /\ \E j \in StepsOf(t, "alternative") :
                       t[j].found = 0 \/ t[j].raised
                  /\ \E j \in StepsOf(t, "pattern") : t[j].n = 0
                  /\ \E j \in StepsOf(t, "aggressive") : t[j].n = 0
       IN /\ due => IsSummary(ev.recs, ev.text)
          /\ ~due => ~HasSummary(ev.recs)
          /\ (ev.json # "reqlist") = (StepsOf(t, "alternative") # {})
          /\ \A j \in StepsOf(t, "alternative") :
               (t[j].found = 0 \/ t[j].raised) = (StepsOf(t, "pattern") # {})
  /\ lastRet.route = "corrupted" =>
       LET text == preprocess_content(lastRet.chunk.content)
       IN /\ ~AnyKept(text.agg) => IsSummary(lastRet.result, text)
          /\ AnyKept(text.agg) => ~HasSummary(lastRet.result)

C16_Witness ==
  /\ lastRet.route = "standard"
  /\ lastRet.tier = "summary"
  /\ LastEvent.text.chars = SummaryLen + 1
  /\ lastRet.result[1].requirement.len = SummaryPrefixLen + SummaryLen + 3

\* the text contains the sentence on the capital buffer
HasSentence(text) ==
  /\ \E i \in 1..Len(text.std) : text.std[i] = SpanSentence
  /\ \E i \in 1..Len(text.agg) : text.agg[i] = SpanSentence

\* every generation call of the last call of extract_requirements failed
AllCallsFailed ==
  /\ lastRet.log # <<>>
  /\ \A k \in 1..Len(lastRet.log) : lastRet.log[k].outcome = "fail"

IsSentenceRecord(rec) ==
  /\ rec.extraction_method = "enhanced_fallback"
  /\ rec.requirement.tid = SpanSentence.tid
  /\ rec.requirement.len = SpanSentence.len

InKeywords(w, rec) == \E i \in 1..Len(rec.keywords) : rec.keywords[i] = w

\* C17 as stated: when every generation call fails on a chunk that contains
\* the sentence, the result holds a tier-3 record for it with
\* requirement_type mandatory, category capital_adequacy and the keywords
\* capital and buffer.
C17_FallbackRecordWhenGenerationFails ==
  (AllCallsFailed /\ HasSentence(lastRet.chunk.content)) =>
    \E k \in 1..Len(lastRet.result) :
      LET rec == lastRet.result[k]
      IN /\ IsSentenceRecord(rec)
         /\ rec.category = "capital_adequacy"
         /\ InKeywords("capital", rec) /\ InKeywords("buffer", rec)
         /\ "requirement_type" \in DOMAIN rec
         /\ rec.requirement_type = "mandatory"

\* C17 (amended): when every generation call fails on a chunk that contains
\* the sentence, the result is one error sentinel and no tier-3 record.  A
\* tier-3 record for the sentence is made only where a pattern scan runs
\* over a text that contains it (the content of a corrupted chunk, or a
\* response neither tier 1 nor tier 2 accepted); it has category
\* capital_adequacy, priority high, the keywords capital and buffer, and no
\* requirement_type.
C17_ErrorSentinelWhenGenerationFails ==
  /\ (AllCallsFailed /\ HasSentence(lastRet.chunk.content)) =>
       /\ Len(lastRet.log) = Attempts
       /\ IsErrorSentinel(lastRet.result, lastRet.chunk)
       /\ \A k \in 1..Len(lastRet.result) : ~IsSentenceRecord(lastRet.result[k])
  /\ \A rec \in AllReturned :
       IsSentenceRecord(rec) =>
         /\ rec.category = "capital_adequacy"
         /\ rec.priority = "high"
         /\ InKeywords("capital", rec) /\ InKeywords("buffer", rec)
         /\ "requirement_type" \notin DOMAIN rec
  /\ (lastRet.route = "corrupted" /\ HasSentence(lastRet.chunk.content)) =>
       /\ lastRet.log = <<>>
       /\ \E k \in 1..Len(lastRet.result) : IsSentenceRecord(lastRet.result[k])

C17_Witness ==
  /\ Len(requirements) = 2
  /\ HasSentence(chunks[1].content)
  /\ IsErrorSentinel(requirements[1], chunks[1])
  /\ requirements[1][1].error = GenerationError
  /\ chunks[2].content = TNoisy
  /\ IsSentenceRecord(requirements[2][1])
  /\ requirements[2][1].category = "capital_adequacy"

\* the condition of lines 19-21
TooShort(content) == content = <<>> \/ Len(strip(content)) < MinContentLen

Returned == ck.pc = "done"

\* C18: chunk_document returns for every input and every chunk_size and
\* overlap, and the list it returns is empty exactly when the content is empty
\* or has fewer than 10 characters after strip().  Violated: with
\* chunk_size 100 and overlap 200 the loop of _split_large_section never
\* exits on a text of 150 characters, and with chunk_size 300 and overlap
\* 200 on sentences of 120 characters.
C18_ReturnsEmptyIffTooShort ==
  /\ ck.pc # "hung"
  /\ Returned => (made = <<>> <=> TooShort(doc.content))

\* the 1-based indexes of the content a returned chunk holds
Held(chunk) == (chunk.at + 1)..(chunk.at + Len(chunk.content))

Covered == UNION {Held(made[k]) : k \in 1..Len(made)}

\* every returned chunk is the stretch of the content at its place, and the
\* chunks come in the order of the text
InPlace ==
  /\ \A k \in 1..Len(made) :
       made[k].content = SubSeq(doc.content, made[k].at + 1,
                                made[k].at + Len(made[k].content))
  /\ \A k \in 1..(Len(made) - 1) : made[k].at <= made[k + 1].at

\* C19 (as stated): for every text of at least 10 characters the returned
\* chunks, overlaps counted once, give back the text exactly, whitespace and
\* marker newlines included.
C19_ReconstructsExactly ==
  Returned /\ Len(doc.content) >= MinContentLen =>
    InPlace /\ Covered = 1..Len(doc.content)

\* C19 (amended): for every text of at least 10 characters after strip(),
\* when chunk_document returns, every chunk is a stretch of the text, the
\* chunks come in text order, and every character that lies in no chunk is
\* whitespace (the newlines of a marker, whitespace-only parts, whitespace
\* at the edges of the text and of a fragment).
C19_LosslessUpToWhitespace ==
  Returned /\ ~TooShort(doc.content) =>
    /\ InPlace
    /\ \A i \in 1..Len(doc.content) : i \in Covered \/ IsWs(doc.content[i])

\* a returned result of a text a marker split, one section of which the
\* splitter cut into overlapping pieces, with whitespace left out
C19_Witness ==
  /\ Returned
  /\ Len(ck.sections) >= 2
  /\ Len(made) > Len(ck.sections)
  /\ \E k \in 1..(Len(made) - 1) : made[k + 1].at < made[k].at + Len(made[k].content)
  /\ \E i \in 1..Len(doc.content) : i \notin Covered /\ IsWs(doc.content[i])

\* the sections the size loop has passed that are within the limit
PassedWithin ==
  {j \in 1..Min(ck.s - 1, Len(ck.sections)) :
     Len(ck.sections[j].text) <= doc.chunk_size}

\* C20: every chunk chunk_document builds has a content of at most
\* chunk_size characters: a section within the limit is passed on as it is,
\* and every piece _split_large_section makes of a larger section has at
\* most chunk_size characters.
C20_ChunksWithinSize ==
  ck.pc \in {"sizes", "split", "hung", "build", "done"} =>
    /\ \A k \in 1..Len(made) : Len(made[k].content) <= doc.chunk_size
    /\ \A k \in 1..Len(ck.final_chunks) : Len(ck.final_chunks[k].text) <= doc.chunk_size
    /\ \A k \in 1..Len(ck.chunks) : Len(ck.chunks[k].text) <= doc.chunk_size
    /\ \A j \in PassedWithin :
         \E k \in 1..Len(ck.final_chunks) : ck.final_chunks[k] = ck.sections[j]

\* a returned result with a section passed as it is and a larger section cut
\* into pieces, one of them of exactly chunk_size characters
C20_Witness ==
  /\ Returned
  /\ PassedWithin # {}
  /\ Len(ck.final_chunks) > Len(ck.sections)
  /\ \E k \in 1..Len(made) : Len(made[k].content) = doc.chunk_size

FirstN(t, n) == SubSeq(t, 1, n)

LastN(t, n) == SubSeq(t, Len(t) - n + 1, Len(t))

\* two fragments of which the second is the piece made next after the first,
\* of the same section
Adjacent(f, g) == f.piece >= 1 /\ g.piece = f.piece + 1

\* the indexes (1-based, in the content) of the last overlap characters of a
\* piece
OverlapRegion(f) == (f.at + Len(f.text) - doc.overlap + 1)..(f.at + Len(f.text))

\* C21 (as stated): of two adjacent pieces of one section the last overlap
\* characters of the first are the first overlap characters of the second,
\* and the same holds of the contents of the chunks chunk_document returns.
C21_ReturnedContentsOverlap ==
  Returned =>
    \A k \in 1..(Len(made) - 1) :
      Adjacent(made[k], made[k + 1]) =>
        /\ Len(made[k].content) >= doc.overlap
        /\ Len(made[k + 1].content) >= doc.overlap
        /\ LastN(made[k].content, doc.overlap) = FirstN(made[k + 1].content, doc.overlap)

\* C21 (amended): of two adjacent pieces _split_large_section returns, the
\* second begins overlap characters before the end of the first, and the last
\* overlap characters of the first are the first overlap characters of the
\* second; the contents returned for them are the pieces stripped, so what
\* they share lies in that region and holds all of it that is not
\* whitespace.
C21_PiecesOverlap ==
  /\ \A j \in 1..(Len(ck.final_chunks) - 1) :
       LET f == ck.final_chunks[j]
           g == ck.final_chunks[j + 1]
       IN  Adjacent(f, g) =>
             /\ g.at = f.at + Len(f.text) - doc.overlap
             /\ Len(f.text) >= doc.overlap
             /\ Len(g.text) >= doc.overlap
             /\ LastN(f.text, doc.overlap) = FirstN(g.text, doc.overlap)
  /\ Returned =>
       \A k \in 1..(Len(made) - 1) :
         Adjacent(made[k], made[k + 1]) =>
           LET shared == Held(made[k]) \cap Held(made[k + 1])
               region == OverlapRegion(ck.final_chunks[made[k].chunk_id])
           IN  /\ shared \subseteq region
               /\ \A i \in region : i \in shared \/ IsWs(doc.content[i])

\* returned chunks of two adjacent pieces with a positive overlap, the first
\* piece ending in whitespace that strip() removed
C21_Witness ==
  /\ Returned
  /\ doc.overlap > 0
  /\ \E k \in 1..(Len(made) - 1) :
       /\ Adjacent(made[k], made[k + 1])
       /\ Len(made[k].content) < made[k].char_count
       /\ LastN(made[k].content, doc.overlap) # FirstN(made[k + 1].content, doc.overlap)

\* C22: every returned chunk has a content that is not empty and not
\* whitespace only, a char_count that is the length of that content, and
\* estimated_tokens that is char_count divided by 4, rounded down.
\* Violated: char_count is the length of the fragment before strip().
C22_CharCountIsContentLength ==
  \A k \in 1..Len(made) :
    /\ made[k].content # <<>>
    /\ Ink(made[k].content) # {}
    /\ made[k].char_count = Len(made[k].content)
    /\ made[k].estimated_tokens = made[k].char_count \div 4

\* C23: the n chunks one call returns carry the ids 1, 2, ..., n in the order
\* of the list, also when a whitespace-only fragment was dropped.  Violated:
\* the id is the index of the fragment among all fragments, dropped ones
\* included.
C23_IdsSequential ==
  Returned => \A k \in 1..Len(made) : made[k].chunk_id = k

\* the markers the marker loop has applied so far
Applied == 1..(ck.marker - 1)

\* the number of newlines a marker begins with, which are not put back
Newlines(marker) == Len(marker) - Len(lstrip_nl(marker))

\* the section begins where an occurrence of the marker ends in the content,
\* with the marker's text after its newlines
BeginsWithMarker(section, marker) ==
  /\ section.at >= Newlines(marker)
  /\ section.at + Len(lstrip_nl(marker)) <= Len(doc.content)
  /\ SubSeq(doc.content, section.at - Newlines(marker) + 1,
            section.at + Len(lstrip_nl(marker))) = marker

\* C24: the structural split applies the markers in the order of the list,
\* each across every section there is: once a marker is applied no section
\* holds it; the sections are stretches of the text in the order of the text;
\* the first begins where the stripped text begins and every other one where
\* an applied marker ends, beginning with that marker's text; no section is
\* whitespace only, and only whitespace lies outside the sections.
C24_StructuralSplit ==
  ck.pc \in {"markers", "sizes", "split", "hung", "build", "done"} /\ ck.sections # <<>> =>
    LET sections == ck.sections
        within == UNION {(sections[j].at + 1)..(sections[j].at + Len(sections[j].text)) :
                           j \in 1..Len(sections)}
    IN  /\ \A j \in 1..Len(sections) : \A m \in Applied :
             ~Contains(sections[j].text, section_markers[m])
        /\ \A j \in 1..Len(sections) :
             /\ sections[j].text =
                  SubSeq(doc.content, sections[j].at + 1, sections[j].at + Len(sections[j].text))
             /\ Ink(sections[j].text) # {}
        /\ \A j \in 1..(Len(sections) - 1) :
             sections[j].at + Len(sections[j].text) <= sections[j + 1].at
        /\ sections[1].at = Lead(doc.content)
        /\ \A j \in 2..Len(sections) :
             \E m \in Applied : BeginsWithMarker(sections[j], section_markers[m])
        /\ \A i \in 1..Len(doc.content) : i \in within \/ IsWs(doc.content[i])

\* the marker loop is over for a text that holds a triple newline and a
\* second marker: the part between them, whitespace only, was dropped, and
\* the section after it begins with the second marker's text
C24_Witness ==
  /\ ck.pc = "sizes"
  /\ Contains(doc.content, section_markers[1])
  /\ \E j \in 1..(Len(ck.sections) - 1) : \E m \in 2..Len(section_markers) :
       /\ ck.sections[j + 1].at - (ck.sections[j].at + Len(ck.sections[j].text)) > 3
       /\ BeginsWithMarker(ck.sections[j + 1], section_markers[m])
       /\ Len(ck.sections[j + 1].text) > Len(lstrip_nl(section_markers[m]))

\* the occurrences of a terminator that lie in the last BreakWindow
\* characters of a window
InTrailingRegion(window, point) ==
  {j \in Occurrences(window, point) : j >= Len(window) - BreakWindow}

\* C25: the cut of every window that is not the last, for every chunk_size,
\* is right after the right-most occurrence of the first terminator of the
\* list that occurs in the last 200 characters of the window, or the window
\* edge start + chunk_size when none occurs there, and never lies before
\* those last 200 characters.  Violated: with a window shorter than 199
\* characters and no ". " in it the cut is start + 1.
C25_CutAtTerminatorOrEdge ==
  ck.pc \in {"split", "hung"} /\ ck.chunks # <<>> /\ (\A x \in ck.seen : x >= 0) =>
    LET section == ck.sections[ck.s]
        f == ck.chunks[Len(ck.chunks)]
        start == f.at - section.at
        cut == start + Len(f.text)
        window == Slice(section.text, start, start + doc.chunk_size)
        found == {q \in 1..Len(break_points) : InTrailingRegion(window, break_points[q]) # {}}
    IN  /\ IF found = {}
           THEN cut = start + doc.chunk_size
           ELSE LET point == break_points[MinOf(found)]
                IN  cut = start + MaxOf(InTrailingRegion(window, point)) + Len(point)
        /\ cut >= start + Max(0, Len(window) - BreakWindow)

\* C28: with 0 <= overlap < chunk_size the loop of _split_large_section
\* exits for every section: each window begins after every window before it
\* and never at a negative index, and no piece is empty.  Violated: with
\* chunk_size 300 and overlap 200 the window after a cut at 240 begins at 40
\* and is cut at 240 again; with chunk_size 100 and overlap 10 the second
\* window begins at -9.
C28_SplitterAdvances ==
  0 <= doc.overlap /\ doc.overlap < doc.chunk_size /\ ck.pc \in {"split", "hung"} =>
    /\ ck.pc # "hung"
    /\ ck.start >= 0
    /\ \A x \in ck.seen : x < ck.start
    /\ \A k \in 1..Len(ck.chunks) : ck.chunks[k].text # <<>>

\* the last call that returned assessed its content
Assessed == lastRet.route \notin {"none", "empty"}

LastQuality == assess_content_quality(preprocess_content(lastRet.chunk.content))

\* C26: the quality_score of every assessed text lies in 0..100.  Violated:
\* the score is capped at 100 but not at 0, and the special-character term
\* takes up to 100 from a base that can be as low as 30.
C26_ScoreInRange ==
  Assessed =>
    /\ 0 <= LastQuality.quality_score.num
    /\ LastQuality.quality_score.num <= 100 * LastQuality.quality_score.den

\* C27: what a generation response holds never ends a pass of the loop with
\* an exception and never becomes an error record: a response that was
\* received is parsed, by one tier or the next, and invalid candidates are
\* left out one by one; an error record is returned only when the generation
\* call itself failed on the last attempt.  Violated: a requirement that is
\* null or not a string raises AttributeError out of the validation of
\* tier 1, and both attempts discard the whole response.
C27_ResponseNeverSurfacesAsError ==
  Called =>
    /\ \A k \in 1..Len(lastRet.log) : lastRet.log[k].outcome # "parse_error"
    /\ lastRet.tier = "error" /\ lastRet.log # <<>> => LastEvent.outcome = "fail"

FallbackTiers == {"pattern", "aggressive", "summary"}

\* the part of a cascade run made by _extract_fallback_requirements
FallbackSteps(trace) == SelectSeq(trace, LAMBDA st : st.tier \in FallbackTiers)

\* one run of the pattern fallback that gave recs: no variant ran twice, a
\* scan without a record is followed by the next variant and a scan with
\* records by nothing, the list is not empty, and a summary record is alone
WellFormedFallback(steps, recs) ==
  /\ recs # <<>>
  /\ \A i \in 1..Len(steps) : \A j \in 1..Len(steps) :
       steps[i].tier = steps[j].tier => i = j
  /\ \A i \in 1..Len(steps) :
       /\ steps[i].tier = "pattern" /\ steps[i].n = 0 =>
            i < Len(steps) /\ steps[i + 1].tier = "aggressive"
       /\ steps[i].tier = "aggressive" /\ steps[i].n = 0 =>
            i < Len(steps) /\ steps[i + 1].tier = "summary"
       /\ steps[i].tier = "aggressive" => i = 1 \/ steps[i - 1].tier = "pattern"
       /\ steps[i].tier = "summary" => i > 1 /\ steps[i - 1].tier = "aggressive"
       /\ steps[i].n > 0 => i = Len(steps) /\ steps[i].n = Len(recs)
  /\ \A k \in 1..Len(recs) :
       recs[k].extraction_method \in {"enhanced_fallback", "summary_fallback"}
  /\ HasSummary(recs) => Len(recs) = 1 /\ steps[Len(steps)].tier = "summary"

\* C29: a run of _extract_fallback_requirements never returns an empty list
\* and runs each variant at most once: the standard scan without a record
\* goes on to the aggressive scan, the aggressive scan without a record to
\* the one summary record, and the summary record never comes with a
\* pattern-matched record; for the run on a corrupted chunk and the runs at
\* the end of a parsing cascade.
C29_FallbackNeverEmpty ==
  /\ lastRet.route = "corrupted" =>
       LET fb == extract_fallback_requirements(preprocess_content(lastRet.chunk.content),
                                               lastRet.chunk.chunk_id, TRUE)
       IN  /\ lastRet.result = fb.recs
           /\ fb.trace[1].tier = "aggressive"
           /\ WellFormedFallback(fb.trace, fb.recs)
  /\ \A k \in 1..Len(lastRet.log) :
       LET steps == FallbackSteps(lastRet.log[k].trace)
       IN  steps # <<>> =>
             /\ steps[1].tier = "pattern"
             /\ WellFormedFallback(steps, lastRet.log[k].recs)

\* a call whose response went through the standard scan and the aggressive
\* scan, both without a record, to the summary record
C29_Witness ==
  /\ lastRet.route = "standard"
  /\ \E k \in 1..Len(lastRet.log) :
       /\ [tier |-> "pattern", n |-> 0] \in {lastRet.log[k].trace[j] : j \in 1..Len(lastRet.log[k].trace)}
       /\ [tier |-> "aggressive", n |-> 0] \in {lastRet.log[k].trace[j] : j \in 1..Len(lastRet.log[k].trace)}
       /\ HasSummary(lastRet.log[k].recs)
       /\ Len(lastRet.log[k].recs) = 1

\* C30: a text is likely_corrupted only if more than a tenth of its
\* characters are special (the ratio _assess_content_quality computes, on
\* the preprocessed content): the word-count term and the word-length term give
\* at least 30, so with a ratio of at most 0.1 the score is at least 20 and
\* the chunk goes to re-segmentation or to generation.
C30_CorruptedOnlyAboveTenth ==
  Assessed =>
    LET content == preprocess_content(lastRet.chunk.content)
        L == Max(content.chars, 1)
        score == LastQuality.quality_score
    IN  /\ ScoreBase(content) >= 30
        /\ content.specials * 10 <= L =>
             /\ score.num >= 20 * score.den
             /\ ~LastQuality.likely_corrupted
             /\ lastRet.route \in {"large", "standard"}
        /\ lastRet.route = "corrupted" => content.specials * 10 > L

\* the call on the text with a special-character ratio of exactly 0.1 and
\* the lowest base: its score is exactly 20 and it went to generation
C30_Witness ==
  /\ lastRet.chunk.content = TEdge
  /\ lastRet.route = "standard"
  /\ LastQuality.quality_score.num = 20 * LastQuality.quality_score.den
  /\ ScoreBase(preprocess_content(TEdge)) = 30
  /\ lastRet.log # <<>>

====
